---- MODULE Spec2Model ----
(***************************************************************************)
(* Model of the RUDI package-manager core:                                 *)
(*   - platform resolver   (packages/core/src/platform-resolver.js)        *)
(*   - dependency resolver (packages/core/src/resolver.js)                 *)
(*   - system registrar    (packages/core/src/system-registry.js)          *)
(*   - package identifiers (packages/env, known here through its tests)    *)
(* JavaScript strings that the code splits or searches are sequences of    *)
(* tokens; the token "-" is the dash that String.split('-') cuts at.       *)
(***************************************************************************)
EXTENDS Integers, Sequences, FiniteSets, TLC

VARIABLES
    manifest,      \* the manifest handed to resolveInstall / validateResolvedInstall
    platformArch,  \* what getPlatformArch() returns on this machine
    optKey,        \* options.platformKey of the last resolveInstall call
    resolved,      \* result of the last resolveInstall call
    validation,    \* result of the last validateResolvedInstall call
    rpc,           \* position of the resolve -> validate pipeline
    depTree,       \* the resolved dependency tree: id -> [installed, dependencies]
    rootId,        \* id of the package handed to getInstallOrder
    installOrder,  \* ids of the packages getInstallOrder returned, in order
    opc,           \* "idle" before the call of getInstallOrder, "done" after
    walk,          \* the running getInstallOrder: call stack of visit, visited, order
    sysFiles,      \* files in the search paths: name -> dir -> state of <dir>/<name>
    pkgDir,        \* package directories: id -> directory and its manifest.json
    shims,         \* shim files in the shared bins directory: binary name -> shim
    shimRegistry,  \* the shim ownership registry: binary name -> entry
    reg,           \* the running call of registerSystemBinary
    unreg,         \* the running call of unregisterSystemBinary
    last,          \* the call that completed last, and what it returned
    supported,     \* result of the last isPlatformSupported call
    depCheck,      \* result of the last checkDependencies call
    idText,        \* the package id handed to parsePackageId
    parsedId,      \* what parsePackageId returned, or that it threw
    recreatedId,   \* createPackageId(...parsePackageId(idText))
    ipc,           \* "idle" before the id round trip, "done" after
    version,       \* the version handed to satisfiesVersion
    constraint,    \* the constraint handed to satisfiesVersion
    satisfied,     \* what satisfiesVersion returned
    vpc,           \* "idle" before the call of satisfiesVersion, "done" after
    ids,           \* the ids handed to resolvePackages
    registryIndex, \* the registry index: id -> entry
    manifestStore, \* the canonical manifests of the registry: path -> manifest
    installedIds,  \* the ids isPackageInstalled finds on disk
    resolutions,   \* the calls of resolvePackage made by resolvePackages
    outcome,       \* what the promise of resolvePackages settled to
    projects,      \* table projects: id -> name of the row, NoRow without row
    sessions,      \* table sessions: id -> [project_id, title, title_override]
    plan,          \* the plan file handed to rudi apply
    undoFile,      \* ~/.rudi/plans/<planId>.undo.json
    before,        \* the two tables as they were when rudi apply was called
    ppc            \* "idle", then "applied" or "cancelled", then "undone" or "notfound"

resolverVars == <<manifest, platformArch, optKey, resolved, validation, rpc, supported>>

orderVars == <<depTree, rootId, installOrder, opc, depCheck, walk>>

registryVars == <<sysFiles, pkgDir, shims, shimRegistry, reg, unreg, last>>

idVars == <<idText, parsedId, recreatedId, ipc>>

versionVars == <<version, constraint, satisfied, vpc>>

packageVars == <<ids, registryIndex, manifestStore, installedIds, resolutions,
                 outcome>>

projectVars == <<projects, sessions, plan, undoFile, before, ppc>>

vars == <<resolverVars, orderVars, registryVars, idVars, versionVars, packageVars,
          projectVars>>

(***************************************************************************)
(* JavaScript values.  Every value is a record of the same shape:          *)
(*   tag   typeof-like tag                                                  *)
(*   s     the tokens of a string, or the elements of an array              *)
(*   keys  for a nested object: the property names holding a truthy value   *)
(*   p     for install.platforms: the map platform key -> override object   *)
(***************************************************************************)
NoMap == [k \in {} |-> 0]

Undefined == [tag |-> "undefined", s |-> <<>>, keys |-> {}, p |-> NoMap]

Null == [tag |-> "null", s |-> <<>>, keys |-> {}, p |-> NoMap]

Str(toks) == [tag |-> "string", s |-> toks, keys |-> {}, p |-> NoMap]

Word(w) == Str(<<w>>)

Arr(elems) == [tag |-> "array", s |-> elems, keys |-> {}, p |-> NoMap]

Obj(K) == [tag |-> "object", s |-> <<>>, keys |-> K, p |-> NoMap]

PlatformsObj(m) == [tag |-> "object", s |-> <<>>, keys |-> {}, p |-> m]

\* JavaScript truthiness: undefined, null and "" are falsy, objects and arrays
\* truthy.
Truthy(v) ==
    CASE v.tag = "undefined" -> FALSE
      [] v.tag = "null"      -> FALSE
      [] v.tag = "string"    -> v.s # <<>>
      [] OTHER               -> TRUE

\* a || b
Or(a, b) == IF Truthy(a) THEN a ELSE b

\* o[f] on an object: an absent property reads as undefined.
Get(o, f) == IF f \in DOMAIN o THEN o[f] ELSE Undefined

\* v.k (or v?.k) is truthy
HasProp(v, k) == v.tag = "object" /\ k \in v.keys

\* (mutant) a spread in which the earlier object wins on a key conflict
Spread_FirstWins(a, b) ==
    [k \in (DOMAIN a) \cup (DOMAIN b) |-> IF k \in DOMAIN a THEN a[k] ELSE b[k]]

\* { ...a, ...b }
Spread(a, b) ==
    [k \in (DOMAIN a) \cup (DOMAIN b) |-> IF k \in DOMAIN b THEN b[k] ELSE a[k]]

\* (mutant) nothing is deleted
Delete_Nothing(o, f) == o

\* delete o[f]
Delete(o, f) == [k \in (DOMAIN o) \ {f} |-> o[k]]

EmptyObj == [k \in {} |-> Undefined]

\* String.prototype.split('-'): the segments between dashes.
RECURSIVE Split(_)
Split(toks) ==
    IF \A i \in 1..Len(toks) : toks[i] # "-"
    THEN <<toks>>
    ELSE LET d == CHOOSE i \in 1..Len(toks) :
                      toks[i] = "-" /\ \A j \in 1..(i-1) : toks[j] # "-"
         IN <<SubSeq(toks, 1, d-1)>> \o Split(SubSeq(toks, d+1, Len(toks)))

(***************************************************************************)
(* Platform resolver                                                       *)
(***************************************************************************)

\* const platformKey = options.platformKey || getPlatformArch()
PlatformKeyOf(opt, arch) == Or(opt, Str(arch)).s

\* topLevel = { source: install.source || delivery, delivery, ...install }
\* followed by delete topLevel.platforms
TopLevel(m) ==
    LET base == [f \in {"source", "delivery"} |->
                    IF f = "source" THEN Or(Get(m.install, "source"), m.delivery)
                                    ELSE m.delivery]
    IN Delete(Spread(base, m.install), "platforms")

\* manifest.install?.platforms || {}
PlatformsOf(m) ==
    LET v == Get(m.install, "platforms") IN IF Truthy(v) THEN v.p ELSE NoMap

\* the tiered selection exact -> OS-only -> {}
\* resolveInstall with the OS-only tier left out of the merge
PlatformConfig_ExactOnly(m, platformKey) ==
    LET platforms == PlatformsOf(m)
    IN IF platformKey \in DOMAIN platforms THEN platforms[platformKey]
       ELSE EmptyObj

PlatformConfig(m, platformKey) ==
    LET platforms == PlatformsOf(m)
        os        == Split(platformKey)[1]
    IN IF platformKey \in DOMAIN platforms THEN platforms[platformKey]
       ELSE IF os \in DOMAIN platforms THEN platforms[os]
       ELSE EmptyObj

\* (mutant) the OS-only tier is tried before the exact tier
MatchedKey_OsFirst(m, platformKey) ==
    LET platforms == PlatformsOf(m)
        os        == Split(platformKey)[1]
    IN IF os \in DOMAIN platforms THEN Str(os)
       ELSE IF platformKey \in DOMAIN platforms THEN Str(platformKey)
       ELSE Word("default")

\* resolved._matchedKey
MatchedKey(m, platformKey) ==
    LET platforms == PlatformsOf(m)
        os        == Split(platformKey)[1]
    IN IF platformKey \in DOMAIN platforms THEN Str(platformKey)
       ELSE IF os \in DOMAIN platforms THEN Str(os)
       ELSE Word("default")

resolveInstall(m, opt, arch) ==
    LET platformKey == PlatformKeyOf(opt, arch)
        merged      == Spread(TopLevel(m), PlatformConfig(m, platformKey))
        trace       == [f \in {"_platformKey", "_matchedKey"} |->
                          IF f = "_platformKey" THEN Str(platformKey)
                                                ELSE MatchedKey(m, platformKey)]
    IN Spread(merged, trace)

\* Object.keys(manifest.install?.platforms || {})
getSupportedPlatforms(m) == DOMAIN PlatformsOf(m)

\* (mutant) a manifest without platform entries is not supported
isPlatformSupported_MatchedOnly(m, platformKey, arch) ==
    resolveInstall(m, platformKey, arch)["_matchedKey"] # Word("default")

isPlatformSupported(m, platformKey, arch) ==
    \/ resolveInstall(m, platformKey, arch)["_matchedKey"] # Word("default")
    \/ Cardinality(getSupportedPlatforms(m)) = 0

\* error and warning messages, as the words of the message text
ErrUrl == <<"Download", "source", "requires", "url", "field">>

ErrChecksum == <<"Download", "source", "requires", "checksum", "with", "algo", "and", "value">>

ErrDetect == <<"System", "source", "requires", "detect.command", "field">>

ErrNpmPackage == <<"NPM", "source", "requires", "package", "field">>

ErrPipPackage == <<"Pip", "source", "requires", "package", "field">>

ErrBins(kind) ==
    <<"Kind">> \o kind.s \o <<"requires", "bins", "field", "with", "at", "least", "one", "binary", "name">>

WarnLatest(src) == <<src, "source", "with", "version", "latest">>

\* message.includes(word)
Mentions(msg, word) == \E i \in 1..Len(msg) : msg[i] = word

IsLatest(m) == m.version = Word("latest")

\* (mutant) only the presence of checksum is tested, not its algo and value
ChecksumMissing_PresenceOnly(r) == ~Truthy(Get(r, "checksum"))

\* !resolved.checksum || !resolved.checksum.algo || !resolved.checksum.value
ChecksumMissing(r) ==
    \/ ~Truthy(Get(r, "checksum"))
    \/ ~HasProp(Get(r, "checksum"), "algo")
    \/ ~HasProp(Get(r, "checksum"), "value")

\* (mutant) only the resolved config is asked for the package
PackageMissing_ResolvedOnly(r, m) == ~Truthy(Get(r, "package"))

\* !resolved.package && !manifest.install?.package
PackageMissing(r, m) ==
    ~Truthy(Get(r, "package")) /\ ~Truthy(Get(m.install, "package"))

\* (mutant) the checks of a source stop at the first error
SourceErrors_FirstOnly(r, m) ==
    LET source == Get(r, "source") IN
    CASE source = Word("download") ->
            IF ~Truthy(Get(r, "url")) THEN <<ErrUrl>>
            ELSE IF ChecksumMissing(r) THEN <<ErrChecksum>> ELSE <<>>
      [] source = Word("system") ->
            IF ~HasProp(Get(r, "detect"), "command") /\ ~HasProp(m.detect, "command")
            THEN <<ErrDetect>> ELSE <<>>
      [] source = Word("npm") ->
            IF PackageMissing(r, m) THEN <<ErrNpmPackage>> ELSE <<>>
      [] source = Word("pip") ->
            IF PackageMissing(r, m) THEN <<ErrPipPackage>> ELSE <<>>
      [] OTHER -> <<>>

\* the switch on resolved.source
SourceErrors(r, m) ==
    LET source == Get(r, "source") IN
    CASE source = Word("download") ->
            (IF ~Truthy(Get(r, "url")) THEN <<ErrUrl>> ELSE <<>>)
            \o (IF ChecksumMissing(r) THEN <<ErrChecksum>> ELSE <<>>)
      [] source = Word("system") ->
            IF ~HasProp(Get(r, "detect"), "command") /\ ~HasProp(m.detect, "command")
            THEN <<ErrDetect>> ELSE <<>>
      [] source = Word("npm") ->
            IF PackageMissing(r, m) THEN <<ErrNpmPackage>> ELSE <<>>
      [] source = Word("pip") ->
            IF PackageMissing(r, m) THEN <<ErrPipPackage>> ELSE <<>>
      [] OTHER -> <<>>

SourceWarnings(r, m) ==
    LET source == Get(r, "source") IN
    IF source \in {Word("download"), Word("npm"), Word("pip")} /\ IsLatest(m)
    THEN <<WarnLatest(source.s[1])>> ELSE <<>>

BinsKinds == {Word("runtime"), Word("binary"), Word("agent")}

\* (mutant) bins is required of every kind
KindErrors_AllKinds(m) ==
    IF ~Truthy(m.bins) \/ Len(m.bins.s) = 0
    THEN <<ErrBins(m.kind)>> ELSE <<>>

\* the kind-specific check on manifest.bins
KindErrors(m) ==
    IF m.kind \in BinsKinds /\ (~Truthy(m.bins) \/ Len(m.bins.s) = 0)
    THEN <<ErrBins(m.kind)>> ELSE <<>>

validateResolvedInstall(r, m) ==
    LET errors == SourceErrors(r, m) \o KindErrors(m)
    IN [valid |-> Len(errors) = 0, errors |-> errors, warnings |-> SourceWarnings(r, m)]

(***************************************************************************)
(* System binary registrar: the disk and the helpers of system-registry.js *)
(***************************************************************************)
MaxSysBins == 2   \* length of the bins option of registerSystemBinary

BinNames == {"git", "rg"}

\* getDefaultSearchPaths() on linux
SearchPaths == <<"/usr/local/bin", "/usr/bin", "/bin">>

\* path.join(dir, name)
Join(dir, name) == <<dir, name>>

NoPath == <<>>

\* `${kind}:${name}`
PkgId(kind, name) == <<kind, ":", name>>

\* packages installed by the installer rather than by the registrar
OtherPkgs == {PkgId("npm", "tool"), PkgId("binary", "rg")}

AllPkgs == {PkgId("binary", n) : n \in BinNames} \cup OtherPkgs

NoRecord == [id |-> <<>>, installType |-> "", bins |-> <<>>, path |-> NoPath]

NoDir == [exists |-> FALSE, hasManifest |-> FALSE, manifest |-> NoRecord]

NoShim == [exists |-> FALSE, target |-> NoPath]

NoEntry == [owned |-> FALSE, owner |-> <<>>, type |-> "", target |-> NoPath]

NoResult == [outcome |-> "none", success |-> FALSE, error |-> ""]

\* the promise resolved to { success: true, ... }
Success == [outcome |-> "resolved", success |-> TRUE, error |-> ""]

\* the promise resolved to { success: false, error }
Failure(error) == [outcome |-> "resolved", success |-> FALSE, error |-> error]

\* the promise rejected: an exception left the async function
Rejected(error) == [outcome |-> "rejected", success |-> FALSE, error |-> error]

\* findSystemBinary: the first search path holding an executable <dir>/<name>
RECURSIVE findFrom(_, _, _, _)
findFrom(files, name, searchPaths, i) ==
    IF i > Len(searchPaths) THEN NoPath
    ELSE IF files[name][searchPaths[i]] \in {"broken", "ok"}
         THEN Join(searchPaths[i], name)
         ELSE findFrom(files, name, searchPaths, i + 1)

findSystemBinary(files, name, searchPaths) == findFrom(files, name, searchPaths, 1)

\* execSync(`"${systemPath}" --version`) returns without throwing
VersionWorks(files, systemPath) == files[systemPath[2]][systemPath[1]] = "ok"

\* isSystemBinaryRegistered(name)
isSystemBinaryRegistered(dirs, name) ==
    LET d == dirs[PkgId("binary", name)]
    IN d.exists /\ d.hasManifest /\ d.manifest.installType = "system"

\* getSystemBinaryInfo(name): the record when manifest.json exists and says
\* installType 'system'; null (NoRecord) otherwise
getSystemBinaryInfo(dirs, name) ==
    LET d == dirs[PkgId("binary", name)]
    IN IF d.exists /\ d.hasManifest /\ d.manifest.installType = "system"
       THEN d.manifest ELSE NoRecord

\* createShimsForTool of shims.js: one shim and one registry entry per bin, in
\* order; a name owned by another package is a conflict and throws unless an
\* override is requested.  The result is the disk after the call and whether
\* the call threw.
RECURSIVE createShimsFrom(_, _, _, _)
createShimsFrom(tool, i, force, st) ==
    IF i > Len(tool.bins) THEN st
    ELSE LET b == tool.bins[i] IN
         IF st.registry[b].owned /\ st.registry[b].owner # tool.id /\ ~force
         THEN [st EXCEPT !.threw = TRUE]
         ELSE createShimsFrom(tool, i + 1, force,
                 [st EXCEPT !.shims[b] = [exists |-> TRUE, target |-> tool.target],
                            !.registry[b] = [owned |-> TRUE, owner |-> tool.id,
                                             type |-> tool.installType,
                                             target |-> tool.target]])

createShimsForTool(tool, force, sh, registry) ==
    createShimsFrom(tool, 1, force,
        [shims |-> sh, registry |-> registry, threw |-> FALSE])

\* removeShims(bins) of shims.js: the shim and the registry entry of every name
removedShims(sh, bins) ==
    [b \in DOMAIN sh |->
        IF \E i \in 1..Len(bins) : bins[i] = b THEN NoShim ELSE sh[b]]

removedEntries(registry, bins) ==
    [b \in DOMAIN registry |->
        IF \E i \in 1..Len(bins) : bins[i] = b THEN NoEntry ELSE registry[b]]

\* retry: the call repeats the call of registerSystemBinary that completed last
IdleReg == [pc |-> "idle", name |-> "", bins |-> <<>>, path |-> NoPath, retry |-> FALSE]

IdleUnreg == [pc |-> "idle", name |-> "", bins |-> <<>>, wasRegistered |-> FALSE]

\* a completed call: which function, whether an override was requested, its
\* result, and for unregisterSystemBinary whether the name was registered
\* as a system binary when the call began
Returned(op, force, result) ==
    [op |-> op, force |-> force, result |-> result, wasRegistered |-> FALSE]

NoCall == Returned("none", FALSE, NoResult)

AbsentEverywhere == [d \in {SearchPaths[i] : i \in 1..Len(SearchPaths)} |-> "absent"]

RegistryIdle ==
    /\ sysFiles = [n \in BinNames |-> AbsentEverywhere]
    /\ pkgDir = [p \in AllPkgs |-> NoDir]
    /\ shims = [b \in BinNames |-> NoShim]
    /\ shimRegistry = [b \in BinNames |-> NoEntry]
    /\ reg = IdleReg
    /\ unreg = IdleUnreg
    /\ last = NoCall

(***************************************************************************)
(* Package identifiers: parsePackageId and createPackageId of the env      *)
(* package.  An id is a sequence of tokens, ":" being the colon.           *)
(***************************************************************************)
MaxIdLen == 4   \* tokens of an id handed to parsePackageId

ValidKinds == {"stack", "runtime", "binary", "agent", "prompt", "npm"}

\* parsePackageId threw 'Invalid package ID'
InvalidId == [ok |-> FALSE, kind |-> "", name |-> <<>>]

\* (mutant) the id is cut at every colon and the first two pieces are taken
parsePackageId_TwoPieces(id) ==
    IF \A i \in 1..Len(id) : id[i] # ":" THEN InvalidId
    ELSE LET c    == CHOOSE i \in 1..Len(id) :
                        id[i] = ":" /\ \A j \in 1..(i-1) : id[j] # ":"
             kind == SubSeq(id, 1, c-1)
             rest == SubSeq(id, c+1, Len(id))
             name == IF \A i \in 1..Len(rest) : rest[i] # ":" THEN rest
                     ELSE SubSeq(rest, 1, (CHOOSE i \in 1..Len(rest) :
                             rest[i] = ":" /\ \A j \in 1..(i-1) : rest[j] # ":") - 1)
         IN IF Len(kind) = 1 /\ kind[1] \in ValidKinds /\ name # <<>>
            THEN [ok |-> TRUE, kind |-> kind[1], name |-> name]
            ELSE InvalidId

\* parsePackageId(id): [kind, name] of "kind:name"; an id without colon, with
\* an unknown kind or without name is an error
parsePackageId(id) ==
    IF \A i \in 1..Len(id) : id[i] # ":" THEN InvalidId
    ELSE LET c    == CHOOSE i \in 1..Len(id) :
                        id[i] = ":" /\ \A j \in 1..(i-1) : id[j] # ":"
             kind == SubSeq(id, 1, c-1)
             name == SubSeq(id, c+1, Len(id))
         IN IF Len(kind) = 1 /\ kind[1] \in ValidKinds /\ name # <<>>
            THEN [ok |-> TRUE, kind |-> kind[1], name |-> name]
            ELSE InvalidId

\* createPackageId(kind, name): `${kind}:${name}`
createPackageId(kind, name) == <<kind, ":">> \o name

(***************************************************************************)
(* Version constraints: satisfiesVersion of resolver.js.  A version is the *)
(* sequence of its dot-separated segments, a segment a sequence of         *)
(* character tokens; a constraint is its operator prefix and the segments  *)
(* of what follows.                                                        *)
(***************************************************************************)
MaxSegments == 3   \* dot-separated segments of a version or constraint input

\* the value Number() gives for a segment that is not a numeral
NaN == -1

IsDigit(t) == t \in {"0", "1", "9"}

DigitValue(t) == CASE t = "0" -> 0 [] t = "1" -> 1 [] t = "9" -> 9

RECURSIVE Decimal(_)
Decimal(seg) ==
    IF seg = <<>> THEN 0
    ELSE Decimal(SubSeq(seg, 1, Len(seg) - 1)) * 10 + DigitValue(seg[Len(seg)])

\* Number(segment): "" is 0, a numeral its value, anything else NaN
Number(seg) ==
    IF \A i \in 1..Len(seg) : IsDigit(seg[i]) THEN Decimal(seg) ELSE NaN

\* the constraint '' (or undefined): !constraint holds
NoConstraint == [op |-> "", parts |-> <<>>]

Ops == {">=", "<=", ">", "<", "="}

\* constraint.match(/^(>=|<=|>|<|=)?(\d+)(?:\.(\d+))?(?:\.(\d+))?$/) succeeds
Matches(c) ==
    /\ c.op \in Ops \cup {""}
    /\ Len(c.parts) \in 1..3
    /\ \A i \in 1..Len(c.parts) :
          c.parts[i] # <<>> /\ \A j \in 1..Len(c.parts[i]) : IsDigit(c.parts[i][j])

\* a > b and a < b on numbers: false when either side is NaN
Gt(a, b) == a # NaN /\ b # NaN /\ a > b

Lt(a, b) == a # NaN /\ b # NaN /\ a < b

RECURSIVE compareFrom(_, _, _)
compareFrom(a, b, i) ==
    IF i > 3 THEN 0
    ELSE IF Gt(a[i], b[i]) THEN 1
    ELSE IF Lt(a[i], b[i]) THEN -1
    ELSE compareFrom(a, b, i + 1)

\* (mutant) the major component is not compared
compareVersions_SkipsMajor(a, b) == compareFrom(a, b, 2)

compareVersions(a, b) == compareFrom(a, b, 1)

\* [major, minor = 0, patch = 0] of the segments mapped through Number
Components(segs) == [i \in 1..3 |-> IF i <= Len(segs) THEN Number(segs[i]) ELSE 0]

\* (mutant) a constraint the pattern rejects is never satisfied
satisfiesVersion_StrictDefault(v, c) ==
    IF c = NoConstraint THEN TRUE
    ELSE IF ~Matches(c) THEN FALSE
    ELSE LET op  == IF c.op = "" THEN "=" ELSE c.op
             cmp == compareVersions(Components(v), Components(c.parts))
         IN CASE op = ">=" -> cmp >= 0
              [] op = "<=" -> cmp <= 0
              [] op = ">"  -> cmp > 0
              [] op = "<"  -> cmp < 0
              [] OTHER     -> cmp = 0

satisfiesVersion(v, c) ==
    IF c = NoConstraint THEN TRUE
    ELSE IF ~Matches(c) THEN TRUE
    ELSE LET op  == IF c.op = "" THEN "=" ELSE c.op
             cmp == compareVersions(Components(v), Components(c.parts))
         IN CASE op = ">=" -> cmp >= 0
              [] op = "<=" -> cmp <= 0
              [] op = ">"  -> cmp > 0
              [] op = "<"  -> cmp < 0
              [] OTHER     -> cmp = 0

\* checkDependencies has not been called
NoCheck == [threw |-> FALSE, satisfied |-> FALSE, missing |-> <<>>]

\* getInstallOrder is not running
NoWalk == [stack |-> <<>>, visited |-> {}, order |-> <<>>, entered |-> <<>>]

(***************************************************************************)
(* Dependency resolver: resolvePackage, resolveDynamicNpm and              *)
(* resolveDependencies of resolver.js.  An id is a sequence of tokens: the *)
(* kind words, ":", and for an npm spec the characters "@", "/", "_" and   *)
(* letters.  A registry entry is a function from property names to         *)
(* JavaScript values; getPackage and getManifest belong to the registry    *)
(* client and are the lookups in `registry` and `manifests`.               *)
(***************************************************************************)
MaxSpecLen == 4   \* tokens of an npm spec
MaxIds == 2       \* ids handed to one call of resolvePackages

\* s.startsWith(prefix)
StartsWith(s, prefix) ==
    Len(s) >= Len(prefix) /\ SubSeq(s, 1, Len(prefix)) = prefix

\* s.substring(n)
Drop(s, n) == SubSeq(s, n + 1, Len(s))

\* s.includes(t) for a one-character t
Includes(s, t) == \E i \in 1..Len(s) : s[i] = t

\* s.split(sep): the segments between the separators
RECURSIVE SplitAt(_, _)
SplitAt(toks, sep) ==
    IF ~Includes(toks, sep)
    THEN <<toks>>
    ELSE LET d == CHOOSE i \in 1..Len(toks) :
                      toks[i] = sep /\ \A j \in 1..(i-1) : toks[j] # sep
         IN <<SubSeq(toks, 1, d-1)>> \o SplitAt(Drop(toks, d), sep)

\* s.lastIndexOf(t), counted from 0; -1 when t does not occur
LastIndexOf(s, t) ==
    IF ~Includes(s, t) THEN -1
    ELSE (CHOOSE i \in 1..Len(s) :
              s[i] = t /\ \A j \in (i+1)..Len(s) : s[j] # t) - 1

NpmPrefix == <<"npm", ":">>

Latest == <<"latest">>

\* the name and version resolveDynamicNpm takes from the spec
NameAndVersion(spec) ==
    IF spec # <<>> /\ spec[1] = "@"
    THEN LET parts == SplitAt(spec, "@") IN
         IF Len(parts) >= 3
         THEN [name |-> <<"@">> \o parts[2], version |-> parts[3]]
         ELSE [name |-> <<"@">> \o parts[2], version |-> Latest]
    ELSE LET lastAt == LastIndexOf(spec, "@") IN
         IF lastAt > 0
         THEN [name |-> SubSeq(spec, 1, lastAt), version |-> Drop(spec, lastAt + 1)]
         ELSE [name |-> spec, version |-> Latest]

\* name.replace(/\//g, '__')
RECURSIVE ReplaceSlashes(_)
ReplaceSlashes(name) ==
    IF name = <<>> THEN <<>>
    ELSE (IF Head(name) = "/" THEN <<"_", "_">> ELSE <<Head(name)>>)
             \o ReplaceSlashes(Tail(name))

\* s.replace(/^@/, '')
StripLeadingAt(s) == IF s # <<>> /\ s[1] = "@" THEN Tail(s) ELSE s

sanitizedName(name) == StripLeadingAt(ReplaceSlashes(name))

\* isPackageInstalled(id) on a disk where the ids in `installed` are installed
isPackageInstalled(id, installed) == id \in installed

resolveDynamicNpm(id, installed) ==
    LET spec == Drop(id, Len(NpmPrefix))
        nv   == NameAndVersion(spec)
    IN [id          |-> Str(id),
        kind        |-> Word("binary"),
        name        |-> Str(nv.name),
        version     |-> Str(nv.version),
        description |-> Str(<<"Dynamic npm package: ">> \o nv.name),
        installType |-> Word("npm"),
        npmPackage  |-> Str(nv.name),
        installDir  |-> Str(<<"npm", "/">> \o sanitizedName(nv.name)),
        installed   |-> isPackageInstalled(id, installed),
        dependencies |-> <<>>,
        source      |-> [type |-> Word("npm"), spec |-> Str(spec)],
        bins        |-> Null]

\* getPackage(id): the index entry, or null
getPackage(registry, id) == IF id \in DOMAIN registry THEN registry[id] ELSE Null

\* getManifest(pkg): the canonical manifest behind pkg.path
getManifest(manifests, pkg) ==
    IF Get(pkg, "path").s \in DOMAIN manifests
    THEN manifests[Get(pkg, "path").s] ELSE Null

\* const mergedPkg = manifest ? { ...pkg, ...manifest } : pkg
Merge(pkg, m) == IF m # Null THEN Spread(pkg, m) ELSE pkg

\* `${v}` in a template string
Template(v) == IF v.tag = "string" THEN v.s ELSE <<v.tag>>

\* mergedPkg.id?.includes(':') ? mergedPkg.id
\*     : `${mergedPkg.kind}:${mergedPkg.id || id.split(':').pop()}`
FullId(mergedPkg, id) ==
    LET mid == Get(mergedPkg, "id") IN
    IF mid.tag = "string" /\ Includes(mid.s, ":") THEN mid.s
    ELSE Template(Get(mergedPkg, "kind")) \o <<":">>
             \o (IF Truthy(mid) THEN mid.s
                 ELSE SplitAt(id, ":")[Len(SplitAt(id, ":"))])

\* pkg.requires?.[k]
Requires(pkg, k) ==
    LET r == Get(pkg, "requires") IN IF r = Undefined THEN Undefined ELSE r[k]

\* pkg.requires?.runtimes || (pkg.runtime ? [pkg.runtime] : [])
Runtimes(pkg) ==
    IF Truthy(Requires(pkg, "runtimes")) THEN Requires(pkg, "runtimes").s
    ELSE IF Truthy(Get(pkg, "runtime")) THEN <<Get(pkg, "runtime").s>>
    ELSE <<>>

\* pkg.requires?.binaries || pkg.requires?.tools || []
Binaries(pkg) ==
    IF Truthy(Requires(pkg, "binaries")) THEN Requires(pkg, "binaries").s
    ELSE IF Truthy(Requires(pkg, "tools")) THEN Requires(pkg, "tools").s
    ELSE <<>>

\* pkg.requires?.agents || []
Agents(pkg) ==
    IF Truthy(Requires(pkg, "agents")) THEN Requires(pkg, "agents").s ELSE <<>>

runtimeId(runtime) ==
    IF StartsWith(runtime, <<"runtime", ":">>) THEN runtime
    ELSE <<"runtime", ":">> \o runtime

binaryId(binary) ==
    IF StartsWith(binary, <<"binary", ":">>) THEN binary
    ELSE IF StartsWith(binary, <<"tool", ":">>) THEN <<"binary", ":">> \o Drop(binary, 2)
    ELSE <<"binary", ":">> \o binary

agentId(agent) ==
    IF StartsWith(agent, <<"agent", ":">>) THEN agent
    ELSE <<"agent", ":">> \o agent

\* (mutant) the binaries are looked up before the runtimes
Lookups_BinariesFirst(pkg) ==
    [i \in 1..Len(Binaries(pkg)) |-> [kind |-> "binary", id |-> binaryId(Binaries(pkg)[i])]]
    \o [i \in 1..Len(Runtimes(pkg)) |-> [kind |-> "runtime", id |-> runtimeId(Runtimes(pkg)[i])]]
    \o [i \in 1..Len(Agents(pkg)) |-> [kind |-> "agent", id |-> agentId(Agents(pkg)[i])]]

\* the getPackage calls of resolveDependencies, in the order of its three loops
Lookups(pkg) ==
    [i \in 1..Len(Runtimes(pkg)) |-> [kind |-> "runtime", id |-> runtimeId(Runtimes(pkg)[i])]]
    \o [i \in 1..Len(Binaries(pkg)) |-> [kind |-> "binary", id |-> binaryId(Binaries(pkg)[i])]]
    \o [i \in 1..Len(Agents(pkg)) |-> [kind |-> "agent", id |-> agentId(Agents(pkg)[i])]]

\* the node pushed for a dependency the registry knows
DependencyNode(lookup, depPkg, installed) ==
    [id           |-> Str(lookup.id),
     kind         |-> Word(lookup.kind),
     name         |-> Get(depPkg, "name"),
     version      |-> Get(depPkg, "version"),
     installed    |-> isPackageInstalled(lookup.id, installed),
     dependencies |-> <<>>]

\* if (pkg) dependencies.push({...}) for one lookup
PushFound(dependencies, lookup, registry, installed) ==
    IF getPackage(registry, lookup.id) # Null
    THEN Append(dependencies,
                DependencyNode(lookup, getPackage(registry, lookup.id), installed))
    ELSE dependencies

RECURSIVE resolveFrom(_, _, _, _, _)
resolveFrom(lookups, i, dependencies, registry, installed) ==
    IF i > Len(lookups) THEN dependencies
    ELSE resolveFrom(lookups, i + 1,
                     PushFound(dependencies, lookups[i], registry, installed),
                     registry, installed)

resolveDependencies(pkg, registry, installed) ==
    resolveFrom(Lookups(pkg), 1, <<>>, registry, installed)

\* the object resolvePackage returns for a registry package; description,
\* entry, npmPackage, pipPackage, postInstall, binary and binaries are copied
\* from mergedPkg in the same way as the properties kept here
ResolvedPackage(mergedPkg, id, dependencies, installed) ==
    [id           |-> Str(FullId(mergedPkg, id)),
     kind         |-> Get(mergedPkg, "kind"),
     name         |-> Get(mergedPkg, "name"),
     version      |-> Get(mergedPkg, "version"),
     path         |-> Get(mergedPkg, "path"),
     runtime      |-> Get(mergedPkg, "runtime"),
     installed    |-> isPackageInstalled(FullId(mergedPkg, id), installed),
     dependencies |-> dependencies,
     requires     |-> Get(mergedPkg, "requires"),
     bins         |-> Get(mergedPkg, "bins"),
     installDir   |-> Get(mergedPkg, "installDir"),
     installType  |-> Get(mergedPkg, "installType")]

\* throw new Error(`Package not found: ${id}`)
NotFound(id) == [error |-> <<"Package not found: ">> \o id]

\* (mutant) an npm: id is looked up in the registry like any other
IsDynamicNpm_Never(id) == FALSE

\* id.startsWith('npm:')
IsDynamicNpm(id) == StartsWith(id, NpmPrefix)

\* mergedPkg of resolvePackage for the index entry pkg
MergedPkg(pkg, manifests) ==
    IF Truthy(Get(pkg, "path")) THEN Merge(pkg, getManifest(manifests, pkg)) ELSE pkg

\* resolvePackage(id) run on its own: whether it threw, and what it returned
resolvePackage(id, registry, manifests, installed) ==
    IF IsDynamicNpm(id)
    THEN [threw |-> FALSE, value |-> resolveDynamicNpm(id, installed)]
    ELSE IF getPackage(registry, id) = Null
    THEN [threw |-> TRUE, value |-> NotFound(id)]
    ELSE LET mergedPkg == MergedPkg(getPackage(registry, id), manifests) IN
         [threw |-> FALSE,
          value |-> ResolvedPackage(mergedPkg, id,
                                    resolveDependencies(mergedPkg, registry, installed),
                                    installed)]

\* a call of resolvePackage inside resolvePackages: where it is suspended
\* (pc), its mergedPkg, the lookup of resolveDependencies it awaits, its
\* dependencies array, how often it has called the registry client, and what
\* it returned or threw
Unstarted ==
    [pc |-> "idle", pkg |-> EmptyObj, next |-> 0, dependencies |-> <<>>,
     consulted |-> 0, result |-> Undefined]

Pending == [status |-> "pending", value |-> <<>>]

\* resolvePackage(id) up to its first await: the whole of resolveDynamicNpm,
\* or the call of getPackage
Started(id, installed) ==
    IF IsDynamicNpm(id)
    THEN [Unstarted EXCEPT !.pc = "done", !.result = resolveDynamicNpm(id, installed)]
    ELSE [Unstarted EXCEPT !.pc = "getPackage", !.consulted = 1]

\* the return of resolvePackage
Finished(r, mergedPkg, id, installed) ==
    [Unstarted EXCEPT !.pc = "done", !.consulted = r.consulted,
                      !.result = ResolvedPackage(mergedPkg, id, r.dependencies, installed)]

\* resolvePackage from mergedPkg to the first getPackage of
\* resolveDependencies, or to its return when there is nothing to look up
AwaitDependencies(r, mergedPkg, id, installed) ==
    IF Lookups(mergedPkg) = <<>>
    THEN Finished(r, mergedPkg, id, installed)
    ELSE [r EXCEPT !.pc = "getDependency", !.pkg = mergedPkg, !.next = 1,
                   !.consulted = @ + 1]

\* (mutant) one dependencies array shared by the running calls
Push_Shared(rs, i, lookup, registry, installed) ==
    [j \in DOMAIN rs |->
        IF rs[j].pc = "getDependency"
        THEN [rs[j] EXCEPT !.dependencies = PushFound(@, lookup, registry, installed)]
        ELSE rs[j]]

\* the push into the dependencies array of call i
Push(rs, i, lookup, registry, installed) ==
    [rs EXCEPT ![i].dependencies = PushFound(@, lookup, registry, installed)]

\* Promise.all after a step of call i: rejected by the first call that
\* throws, fulfilled with the results in the order of the ids once all returned
Settle(out, rs, i) ==
    IF out.status # "pending" THEN out
    ELSE IF rs[i].pc = "threw" THEN [status |-> "rejected", value |-> <<rs[i].result>>]
    ELSE IF \A j \in DOMAIN rs : rs[j].pc = "done"
    THEN [status |-> "fulfilled", value |-> [j \in DOMAIN rs |-> rs[j].result]]
    ELSE out

(***************************************************************************)
(* Inputs of the platform resolver                                         *)
(***************************************************************************)
MaxPlatforms == 2        \* declared entries of install.platforms

MaxOverrideFields == 2   \* fields of one platform override

MaxBins == 1             \* length of manifest.bins

MaxInstallFields == 3    \* top-level fields of manifest.install

Key(os, arch) == <<os, "-", arch>>

\* keys a manifest may declare: exact, OS-only, and an exact key of another OS
DeclKeys == {Key("darwin", "arm64"), <<"darwin">>, Key("win32", "x64")}

\* keys a caller may request
RequestKeys ==
    {Key("darwin", "arm64"), Key("darwin", "x64"), <<"darwin">>,
     Key("win32", "x64"), Key("freebsd", "x64")}

\* options.platformKey: a key, or absent
Requests == {Str(k) : k \in RequestKeys} \cup {Undefined}

\* all objects with at most n of the fields of FV, FV[f] the values f may take
Objs(FV, n) ==
    UNION { { o \in [D -> UNION {FV[f] : f \in D}] : \A f \in D : o[f] \in FV[f] } :
            D \in {D \in SUBSET DOMAIN FV : Cardinality(D) <= n} }

OverrideFV ==
    [f \in {"source", "delivery", "url"} |->
        CASE f = "source"   -> {Word("download")}
          [] f = "delivery" -> {Word("remote")}
          [] f = "url"      -> {Word("U2")}]

Overrides == Objs(OverrideFV, MaxOverrideFields)

PlatformMaps ==
    UNION { [D -> Overrides] :
            D \in {D \in SUBSET DeclKeys : Cardinality(D) <= MaxPlatforms} }

TopFV ==
    [f \in {"source", "delivery", "url"} |->
        CASE f = "source"   -> {Word("system"), Word("download"), Str(<<>>)}
          [] f = "delivery" -> {Word("remote")}
          [] f = "url"      -> {Word("U1")}]

WithPlatforms(o, pm) ==
    IF DOMAIN pm = {} THEN o
    ELSE Spread(o, [f \in {"platforms"} |-> PlatformsObj(pm)])

\* manifests that exercise the tiered platform selection and the merge
ResolveManifests ==
    { [kind |-> Word("binary"), version |-> Word("1.0"), delivery |-> d,
       bins |-> Arr(<<"b">>), detect |-> Undefined,
       install |-> WithPlatforms(top, pm)] :
      d \in {Undefined, Word("system")}, top \in Objs(TopFV, MaxInstallFields), pm \in PlatformMaps }

\* manifests that declare install.platforms as the empty object
EmptyMapManifests ==
    { [kind |-> Word("binary"), version |-> Word("1.0"), delivery |-> Word("system"),
       bins |-> Arr(<<"b">>), detect |-> Undefined,
       install |-> Spread(top, [f \in {"platforms"} |-> PlatformsObj(NoMap)])] :
      top \in Objs(TopFV, 1) }

\* top-level fields written as null
NullFV ==
    [f \in {"source", "delivery"} |->
        CASE f = "source"   -> {Null}
          [] f = "delivery" -> {Null, Word("remote")}]

\* manifests whose install.source or install.delivery is null, without
\* platforms or with one override that sets neither
NullManifests ==
    { [kind |-> Word("binary"), version |-> Word("1.0"), delivery |-> d,
       bins |-> Arr(<<"b">>), detect |-> Undefined,
       install |-> WithPlatforms(top, pm)] :
      d \in {Undefined, Word("system")},
      top \in Objs(NullFV, 2) \ {EmptyObj},
      pm \in {NoMap, [k \in {<<"darwin">>} |-> [f \in {"url"} |-> Word("U2")]]} }

ValidateFV ==
    [f \in {"source", "url", "checksum", "package", "detect"} |->
        CASE f = "source"   -> {Word("download"), Word("system"), Word("npm"),
                                Word("pip"), Word("git")}
          [] f = "url"      -> {Word("U1")}
          [] f = "checksum" -> {Obj({"algo"}), Obj({"algo", "value"})}
          [] f = "package"  -> {Word("P")}
          [] f = "detect"   -> {Obj({"command"})}]

ValidateOverrides ==
    { [f \in {"url", "checksum"} |->
          IF f = "url" THEN Word("U2") ELSE Obj({"algo", "value"})],
      [f \in {"package"} |-> Str(<<>>)] }

ValidatePlatformMaps ==
    {NoMap} \cup { [k \in {<<"darwin">>} |-> o] : o \in ValidateOverrides }

BinsValues ==
    {Undefined} \cup
    { Arr(b) : b \in UNION { [1..n -> {"b"}] : n \in 0..MaxBins } }

Kinds == {Word("runtime"), Word("binary"), Word("agent"), Word("stack"), Word("prompt")}

\* manifests that exercise the per-source and per-kind validation
ValidateManifests ==
    { [kind |-> k, version |-> v, delivery |-> Word("remote"),
       bins |-> b, detect |-> dt,
       install |-> WithPlatforms(top, pm)] :
      k \in Kinds, v \in {Word("1.0"), Word("latest")}, b \in BinsValues,
      dt \in {Undefined, Obj({"command"})},
      top \in Objs(ValidateFV, MaxInstallFields), pm \in ValidatePlatformMaps }

NoValidation == [valid |-> FALSE, errors |-> <<>>, warnings |-> <<>>]

ResolverIdle ==
    /\ manifest = [kind |-> Word("stack"), version |-> Word("1.0"),
                   delivery |-> Undefined, bins |-> Undefined,
                   detect |-> Undefined, install |-> EmptyObj]
    /\ platformArch = Key("darwin", "x64")
    /\ optKey = Undefined
    /\ resolved = EmptyObj
    /\ validation = NoValidation
    /\ rpc = "idle"
    /\ supported = FALSE

OrderIdle ==
    /\ depTree = [i \in {"A"} |-> [installed |-> TRUE, dependencies |-> <<>>]]
    /\ rootId = "A"
    /\ installOrder = <<>>
    /\ opc = "idle"
    /\ depCheck = NoCheck
    /\ walk = NoWalk

IdsIdle ==
    /\ idText = <<>>
    /\ parsedId = InvalidId
    /\ recreatedId = <<>>
    /\ ipc = "idle"

VersionIdle ==
    /\ version = <<>>
    /\ constraint = NoConstraint
    /\ satisfied = FALSE
    /\ vpc = "idle"

\* no row of table projects under this id
NoRow == <<>>

\* the undo file does not exist
NoFile == [exists |-> FALSE, actions |-> <<>>]

NoPlan == [createProjects |-> <<>>, moveSessions |-> <<>>, updateTitles |-> <<>>]

ProjectIdle ==
    /\ projects = NoMap
    /\ sessions = NoMap
    /\ plan = NoPlan
    /\ undoFile = NoFile
    /\ before = [projects |-> NoMap, sessions |-> NoMap]
    /\ ppc = "idle"

PackagesIdle ==
    /\ ids = <<>>
    /\ registryIndex = NoMap
    /\ manifestStore = NoMap
    /\ installedIds = {}
    /\ resolutions = <<>>
    /\ outcome = Pending

InitResolve ==
    /\ ProjectIdle
    /\ PackagesIdle
    /\ OrderIdle
    /\ RegistryIdle
    /\ IdsIdle
    /\ VersionIdle
    /\ \/ manifest \in ResolveManifests
       \/ manifest \in EmptyMapManifests
       \/ manifest \in NullManifests
       \/ manifest \in ValidateManifests
    /\ platformArch = Key("darwin", "x64")
    /\ optKey = Undefined
    /\ resolved = EmptyObj
    /\ validation = NoValidation
    /\ rpc = "idle"
    /\ supported = FALSE

\* a call resolveInstall(manifest, { platformKey: opt })
ResolveInstall ==
    /\ rpc = "idle"
    /\ \E opt \in Requests :
          /\ optKey' = opt
          /\ resolved' = resolveInstall(manifest, opt, platformArch)
    /\ rpc' = "resolved"
    /\ UNCHANGED <<manifest, platformArch, validation, supported>>
    /\ UNCHANGED <<projectVars, orderVars, registryVars, idVars, versionVars, packageVars>>

\* a call validateResolvedInstall(resolved, manifest)
ValidateResolvedInstall ==
    /\ rpc = "resolved"
    /\ validation' = validateResolvedInstall(resolved, manifest)
    /\ rpc' = "validated"
    /\ UNCHANGED <<manifest, platformArch, optKey, resolved, supported>>
    /\ UNCHANGED <<projectVars, orderVars, registryVars, idVars, versionVars, packageVars>>

\* a call isPlatformSupported(manifest, opt), which resolves for itself
IsPlatformSupported ==
    /\ rpc = "idle"
    /\ \E opt \in Requests :
          /\ optKey' = opt
          /\ resolved' = resolveInstall(manifest, opt, platformArch)
          /\ supported' = isPlatformSupported(manifest, opt, platformArch)
    /\ rpc' = "supported"
    /\ UNCHANGED <<manifest, platformArch, validation>>
    /\ UNCHANGED <<projectVars, orderVars, registryVars, idVars, versionVars, packageVars>>

NextResolve == ResolveInstall \/ ValidateResolvedInstall \/ IsPlatformSupported

SpecResolve == InitResolve /\ [][NextResolve]_vars

(***************************************************************************)
(* Claims about the platform resolver (checked under SpecResolve)          *)
(***************************************************************************)
RequestedKey == PlatformKeyOf(optKey, platformArch)

Declared == DOMAIN PlatformsOf(manifest)

\* the manifest declares an exact key os-arch together with its OS-only key
DeclaresExactAndOs ==
    \E k \in Declared : Len(Split(k)) > 1 /\ Split(k)[1] \in Declared

\* C1: with an exact and an OS-only key declared, _matchedKey is the exact key
\* when it is requested, the OS key for another architecture of that OS and
\* "default" for an OS without entry; _platformKey is the requested key.
C1_MatchedKeyTiers ==
    (rpc # "idle" /\ DeclaresExactAndOs) =>
        LET os == Split(RequestedKey)[1] IN
        /\ resolved["_platformKey"] = Str(RequestedKey)
        /\ RequestedKey \in Declared => resolved["_matchedKey"] = Str(RequestedKey)
        /\ (RequestedKey \notin Declared /\ os \in Declared)
              => resolved["_matchedKey"] = Str(os)
        /\ (RequestedKey \notin Declared /\ os \notin Declared)
              => resolved["_matchedKey"] = Word("default")

\* the exact key is requested while the OS-only key is declared too
C1_Witness ==
    /\ rpc = "resolved"
    /\ DeclaresExactAndOs
    /\ RequestedKey = Key("darwin", "arm64")
    /\ {RequestedKey, <<"darwin">>} \subseteq Declared
    /\ resolved["_matchedKey"] = Str(Key("darwin", "arm64"))

\* the override that resolved._matchedKey names
MatchedOverride ==
    IF resolved["_matchedKey"] = Word("default") THEN EmptyObj
    ELSE PlatformsOf(manifest)[resolved["_matchedKey"].s]

\* C2: a field of both the top-level config and the matched override resolves
\* to the override's value; a field of the top level only is carried unchanged.
C2_OverrideWins ==
    rpc # "idle" =>
        \A f \in DOMAIN TopLevel(manifest) :
            IF f \in DOMAIN MatchedOverride
            THEN resolved[f] = MatchedOverride[f]
            ELSE f \in DOMAIN resolved /\ resolved[f] = TopLevel(manifest)[f]

\* top level and matched override disagree on source, and a top-level-only url
\* is carried over
C2_Witness ==
    /\ rpc = "resolved"
    /\ "source" \in DOMAIN MatchedOverride
    /\ TopLevel(manifest)["source"] = Word("system")
    /\ MatchedOverride["source"] = Word("download")
    /\ resolved["source"] = Word("download")
    /\ "url" \in DOMAIN TopLevel(manifest) /\ "url" \notin DOMAIN MatchedOverride
    /\ resolved["url"] = Word("U1")

\* the resolved config without its two trace fields
Untraced == Delete(Delete(resolved, "_platformKey"), "_matchedKey")

ExactMerged == RequestedKey \in Declared

OsMerged == RequestedKey \notin Declared /\ Split(RequestedKey)[1] \in Declared

NothingMerged == ~ExactMerged /\ ~OsMerged

\* C29: _matchedKey names the tier that was merged: the exact key exactly when
\* the exact platform entry was merged over the top level, the OS key exactly
\* when the OS-only entry was, and "default" exactly when none was; the
\* resolved config is then the top-level config plus the two trace fields.
C29_MatchedKeyNamesMergedTier ==
    rpc # "idle" =>
        LET os  == Split(RequestedKey)[1]
            key == resolved["_matchedKey"]
            top == TopLevel(manifest)
        IN
        /\ DOMAIN resolved = DOMAIN Untraced \cup {"_platformKey", "_matchedKey"}
        /\ ExactMerged <=> key = Str(RequestedKey)
        /\ OsMerged <=> (key = Str(os) /\ os # RequestedKey)
        /\ NothingMerged <=> key = Word("default")
        /\ ExactMerged => Untraced = Spread(top, PlatformsOf(manifest)[RequestedKey])
        /\ OsMerged => Untraced = Spread(top, PlatformsOf(manifest)[os])
        /\ NothingMerged => Untraced = top

\* the OS-only entry is merged and changes the top-level config
C29_Witness ==
    /\ rpc = "resolved"
    /\ OsMerged
    /\ resolved["_matchedKey"] = Str(<<"darwin">>)
    /\ Untraced # TopLevel(manifest)

\* no platform entry matches: the top level plus the two trace fields
C29_WitnessDefault ==
    /\ rpc = "resolved"
    /\ NothingMerged
    /\ Declared # {}
    /\ resolved["_matchedKey"] = Word("default")
    /\ Untraced = TopLevel(manifest)

IsDownload == Get(resolved, "source") = Word("download")

ChecksumComplete ==
    HasProp(Get(resolved, "checksum"), "algo") /\ HasProp(Get(resolved, "checksum"), "value")

SomeErrorMentions(word) ==
    \E i \in 1..Len(validation.errors) : Mentions(validation.errors[i], word)

NoBins == ~Truthy(manifest.bins) \/ Len(manifest.bins.s) = 0

\* C6 as stated: a download config without complete checksum has an error
\* mentioning "checksum"; with a complete checksum and a url it is valid.
C6_Original ==
    (rpc = "validated" /\ IsDownload) =>
        /\ ~ChecksumComplete => SomeErrorMentions("checksum")
        /\ (ChecksumComplete /\ Truthy(Get(resolved, "url"))) => validation.valid

\* C6 amended: ... it is valid provided the manifest's kind does not require
\* bins or bins is non-empty.
C6_DownloadChecksum ==
    (rpc = "validated" /\ IsDownload) =>
        /\ ~ChecksumComplete => SomeErrorMentions("checksum")
        /\ (ChecksumComplete /\ Truthy(Get(resolved, "url"))
              /\ (manifest.kind \notin BinsKinds \/ ~NoBins)) => validation.valid

\* a runtime with bins, a url and a complete checksum validates
C6_Witness ==
    /\ rpc = "validated" /\ IsDownload
    /\ ChecksumComplete /\ Truthy(Get(resolved, "url"))
    /\ manifest.kind = Word("runtime") /\ ~NoBins
    /\ validation.valid

\* C7 as stated: runtime, binary and agent manifests without bins fail with an
\* error mentioning "bins"; stack and prompt manifests of that shape are valid.
C7_Original ==
    (rpc = "validated" /\ NoBins) =>
        /\ manifest.kind \in BinsKinds => (~validation.valid /\ SomeErrorMentions("bins"))
        /\ manifest.kind \in {Word("stack"), Word("prompt")} => validation.valid

\* C7 amended: ... for stack and prompt manifests of that shape no error
\* mentions "bins", and validation is valid whenever the requirements of the
\* resolved source are met.
C7_BinsByKind ==
    (rpc = "validated" /\ NoBins) =>
        /\ manifest.kind \in BinsKinds => (~validation.valid /\ SomeErrorMentions("bins"))
        /\ manifest.kind \in {Word("stack"), Word("prompt")} =>
              /\ ~SomeErrorMentions("bins")
              /\ SourceErrors(resolved, manifest) = <<>> => validation.valid

\* a stack without bins whose download config is complete validates
C7_Witness ==
    /\ rpc = "validated" /\ NoBins
    /\ manifest.kind = Word("stack")
    /\ IsDownload /\ ChecksumComplete
    /\ validation.valid

\* C14: isPlatformSupported is true exactly when the resolution for the key
\* matched a declared key or the manifest declares no platform, and false
\* exactly when it declares platforms and neither the requested key nor its
\* OS-only key is among them.
C14_SupportedIffMatched ==
    rpc = "supported" =>
        LET os == Split(RequestedKey)[1] IN
        /\ supported <=> (resolved["_matchedKey"] # Word("default") \/ Declared = {})
        /\ ~supported <=>
              (Declared # {} /\ RequestedKey \notin Declared /\ os \notin Declared)

\* a manifest whose platforms object is empty is supported on the key asked
C14_Witness ==
    /\ rpc = "supported"
    /\ "platforms" \in DOMAIN manifest.install
    /\ Declared = {}
    /\ resolved["_matchedKey"] = Word("default")
    /\ supported

\* only darwin keys are declared and win32-x64 is asked: not supported
C14_WitnessUnsupported ==
    /\ rpc = "supported"
    /\ Declared = {Key("darwin", "arm64"), <<"darwin">>}
    /\ RequestedKey = Key("win32", "x64")
    /\ ~supported

\* the requirements the resolved config and the manifest violate
Violations ==
    LET source == Get(resolved, "source") IN
    (IF source = Word("download") /\ ~Truthy(Get(resolved, "url")) THEN 1 ELSE 0)
    + (IF source = Word("download") /\ ~ChecksumComplete THEN 1 ELSE 0)
    + (IF /\ source = Word("system")
          /\ ~HasProp(Get(resolved, "detect"), "command")
          /\ ~HasProp(manifest.detect, "command") THEN 1 ELSE 0)
    + (IF /\ source \in {Word("npm"), Word("pip")}
          /\ ~Truthy(Get(resolved, "package"))
          /\ ~Truthy(Get(manifest.install, "package")) THEN 1 ELSE 0)
    + (IF manifest.kind \in BinsKinds /\ NoBins THEN 1 ELSE 0)

\* C15: validateResolvedInstall returns { valid, errors, warnings } with one
\* error per violated requirement, all found in the same call; valid holds
\* exactly when errors is empty, whatever the warnings.
C15_AllErrorsCollected ==
    rpc = "validated" =>
        /\ Len(validation.errors) = Violations
        /\ validation.valid <=> (validation.errors = <<>>)
        /\ (IsDownload /\ ~Truthy(Get(resolved, "url"))) => SomeErrorMentions("url")
        /\ (IsDownload /\ ~ChecksumComplete) => SomeErrorMentions("checksum")
        /\ (manifest.kind \in BinsKinds /\ NoBins) => SomeErrorMentions("bins")
        /\ (Violations = 0 /\ IsLatest(manifest)) => validation.valid

\* a runtime at version latest without url, checksum and bins: three errors
\* and a warning from one call
C15_Witness ==
    /\ rpc = "validated"
    /\ IsDownload /\ manifest.kind = Word("runtime") /\ NoBins
    /\ Len(validation.errors) = 3
    /\ SomeErrorMentions("url") /\ SomeErrorMentions("checksum") /\ SomeErrorMentions("bins")
    /\ validation.warnings # <<>>
    /\ ~validation.valid

\* a complete npm config at version latest is valid although it is warned about
C15_WitnessWarned ==
    /\ rpc = "validated"
    /\ Get(resolved, "source") = Word("npm")
    /\ validation.warnings # <<>>
    /\ validation.valid

\* C16: for source system, an error about detect.command is reported exactly
\* when neither the resolved config nor the manifest's top level has it; for
\* npm and pip, an error about package exactly when neither the resolved
\* config nor manifest.install has it; no other source gets these errors.
C16_SourceRequiredField ==
    rpc = "validated" =>
        LET source == Get(resolved, "source") IN
        /\ SomeErrorMentions("detect.command") <=>
              /\ source = Word("system")
              /\ ~HasProp(Get(resolved, "detect"), "command")
              /\ ~HasProp(manifest.detect, "command")
        /\ SomeErrorMentions("package") <=>
              /\ source \in {Word("npm"), Word("pip")}
              /\ ~Truthy(Get(resolved, "package"))
              /\ ~Truthy(Get(manifest.install, "package"))

\* the matched override empties package, manifest.install still names it: no
\* error about package
C16_Witness ==
    /\ rpc = "validated"
    /\ Get(resolved, "source") = Word("npm")
    /\ ~Truthy(Get(resolved, "package"))
    /\ Truthy(Get(manifest.install, "package"))
    /\ ~SomeErrorMentions("package")

\* a system source whose detect.command stands at the manifest's top level only
C16_WitnessDetect ==
    /\ rpc = "validated"
    /\ Get(resolved, "source") = Word("system")
    /\ ~HasProp(Get(resolved, "detect"), "command")
    /\ HasProp(manifest.detect, "command")
    /\ ~SomeErrorMentions("detect.command")

\* C17: the resolved config has no platforms key, and no call changes the
\* manifest, install.platforms included.
C17_PlatformsNotCopied ==
    [][ /\ rpc' # "idle" => "platforms" \notin DOMAIN resolved'
        /\ manifest' = manifest ]_vars

\* a resolution that matched a declared key: the manifest still declares its
\* platforms, the resolved config does not carry them
C17_Witness ==
    /\ rpc = "resolved"
    /\ resolved["_matchedKey"] # Word("default")
    /\ Declared # {}
    /\ "platforms" \in DOMAIN manifest.install
    /\ "platforms" \notin DOMAIN resolved

\* a value that is neither null nor undefined
IsSet(v) == v.tag \notin {"undefined", "null"}

\* C18: when the matched override sets no source, the resolved source is
\* install.source if that is set and manifest.delivery otherwise; when it sets
\* no delivery, the resolved delivery is install.delivery if that is set and
\* manifest.delivery otherwise.
C18_SourceFallback ==
    rpc # "idle" =>
        /\ "source" \notin DOMAIN MatchedOverride =>
              Get(resolved, "source") =
                  (IF IsSet(Get(manifest.install, "source"))
                   THEN Get(manifest.install, "source") ELSE manifest.delivery)
        /\ "delivery" \notin DOMAIN MatchedOverride =>
              Get(resolved, "delivery") =
                  (IF IsSet(Get(manifest.install, "delivery"))
                   THEN Get(manifest.install, "delivery") ELSE manifest.delivery)

(***************************************************************************)
(* Dependency resolver: getInstallOrder                                    *)
(***************************************************************************)
MaxDeps == 2     \* length of one node's dependencies list

MaxEdges == 3    \* dependency entries in the whole tree

PackageIds == {"A", "B", "C"}

\* (mutant) the package is appended whether installed or not
PushIfMissing_Always(st, pkg, tree) == [st EXCEPT !.order = Append(@, pkg)]

\* if (!pkg.installed) order.push(pkg)
PushIfMissing(st, pkg, tree) ==
    IF ~tree[pkg].installed THEN [st EXCEPT !.order = Append(@, pkg)] ELSE st

RECURSIVE visit(_, _, _), visitDeps(_, _, _, _)

\* for (const dep of pkg.dependencies || []) visit(dep), from the i-th on
visitDeps(ds, i, st, tree) ==
    IF i > Len(ds) THEN st
    ELSE visitDeps(ds, i + 1, visit(ds[i], st, tree), tree)

\* the inner function visit(pkg); st holds the closure's visited and order
visit(pkg, st, tree) ==
    IF pkg \in st.visited THEN st
    ELSE LET marked == [st EXCEPT !.visited = @ \cup {pkg}]
             after  == visitDeps(tree[pkg].dependencies, 1, marked, tree)
         IN PushIfMissing(after, pkg, tree)

\* deepest call stack of visit the walk is allowed; a walk that marks every
\* id it enters stays below it
MaxStack == Cardinality(PackageIds) + 2

\* (mutant) the visited set is never consulted
AlreadyVisited_Never(w, pkg) == FALSE

\* if (visited.has(pkg.id)) return
AlreadyVisited(w, pkg) == pkg \in w.visited

\* a frame of visit(pkg): at = 0 on entry, at = k before the k-th dependency
Frame(pkg, at) == [pkg |-> pkg, at |-> at]

\* the closure of getInstallOrder at its call visit(resolved); entered logs
\* the ids whose body of visit ran
StartWalk(root) ==
    [stack |-> <<Frame(root, 0)>>, visited |-> {}, order |-> <<>>, entered |-> <<>>]

Pop(w) == [w EXCEPT !.stack = SubSeq(@, 1, Len(@) - 1)]

\* the innermost visit(pkg) is about to call visit(dep)
Calls(w, tree) ==
    LET top == w.stack[Len(w.stack)]
    IN top.at \in 1..Len(tree[top.pkg].dependencies)

\* one step of the innermost running visit(pkg)
StepVisit(w, tree) ==
    LET top == w.stack[Len(w.stack)]
        ds  == tree[top.pkg].dependencies
    IN IF top.at = 0
       THEN IF AlreadyVisited(w, top.pkg) THEN Pop(w)
            ELSE [w EXCEPT !.visited = @ \cup {top.pkg},
                           !.entered = Append(@, top.pkg),
                           !.stack[Len(w.stack)] = Frame(top.pkg, 1)]
       ELSE IF top.at <= Len(ds)
       THEN [w EXCEPT !.stack = Append([@ EXCEPT ![Len(w.stack)] = Frame(top.pkg, top.at + 1)],
                                       Frame(ds[top.at], 0))]
       ELSE Pop(PushIfMissing(w, top.pkg, tree))

getInstallOrder(root, tree) ==
    visit(root, [visited |-> {}, order |-> <<>>], tree).order

\* (mutant) a dependency already listed is not pushed again
PushMissing_Once(missing, dep, tree) ==
    IF ~tree[dep].installed /\ \A k \in 1..Len(missing) : missing[k] # dep
    THEN Append(missing, dep) ELSE missing

\* if (!dep.installed) missing.push(dep)
PushMissing(missing, dep, tree) ==
    IF ~tree[dep].installed THEN Append(missing, dep) ELSE missing

RECURSIVE check(_, _, _), checkDeps(_, _, _, _)

\* for (const dep of pkg.dependencies || []) { push if missing; check(dep) }
checkDeps(ds, i, missing, tree) ==
    IF i > Len(ds) THEN missing
    ELSE checkDeps(ds, i + 1, check(ds[i], PushMissing(missing, ds[i], tree), tree), tree)

\* the inner function check(pkg); missing is the closure's array
check(pkg, missing, tree) == checkDeps(tree[pkg].dependencies, 1, missing, tree)

\* ids reachable from the set S along dependencies of tree
RECURSIVE Reach(_, _)
Reach(S, tree) ==
    LET T == S \cup UNION { {tree[i].dependencies[k] : k \in 1..Len(tree[i].dependencies)} :
                            i \in S }
    IN IF T = S THEN S ELSE Reach(T, tree)

\* check keeps no visited set: below a node that depends on itself the
\* recursion never returns and the call ends in a RangeError
Unbounded(pkg, tree) ==
    \E i \in Reach({pkg}, tree) :
        i \in Reach({tree[i].dependencies[k] : k \in 1..Len(tree[i].dependencies)}, tree)

checkDependencies(root, tree) ==
    IF Unbounded(root, tree)
    THEN [threw |-> TRUE, satisfied |-> FALSE, missing |-> <<>>]
    ELSE LET missing == check(root, <<>>, tree)
         IN [threw |-> FALSE, satisfied |-> Len(missing) = 0, missing |-> missing]

SeqsUpTo(S, n) == UNION { [1..k -> S] : k \in 0..n }

SumLen(tree) ==
    LET RECURSIVE Sum(_)
        Sum(I) == IF I = {} THEN 0
                  ELSE LET i == CHOOSE x \in I : TRUE
                       IN Len(tree[i].dependencies) + Sum(I \ {i})
    IN Sum(DOMAIN tree)

\* resolved trees over PackageIds; a node is identified by its id
DepTrees ==
    { t \in [PackageIds -> [installed : BOOLEAN,
                            dependencies : SeqsUpTo(PackageIds, MaxDeps)]] :
        SumLen(t) <= MaxEdges }

InitOrder ==
    /\ ProjectIdle
    /\ PackagesIdle
    /\ ResolverIdle
    /\ RegistryIdle
    /\ IdsIdle
    /\ VersionIdle
    /\ depTree \in DepTrees
    /\ rootId \in PackageIds
    /\ installOrder = <<>>
    /\ opc = "idle"
    /\ depCheck = NoCheck
    /\ walk = NoWalk

\* a call getInstallOrder(resolved)
GetInstallOrder ==
    /\ opc = "idle"
    /\ installOrder' = getInstallOrder(rootId, depTree)
    /\ opc' = "done"
    /\ UNCHANGED <<depTree, rootId, depCheck, walk>>
    /\ UNCHANGED <<projectVars, resolverVars, registryVars, idVars, versionVars, packageVars>>

\* a call checkDependencies(resolved)
CheckDependencies ==
    /\ opc = "idle"
    /\ depCheck' = checkDependencies(rootId, depTree)
    /\ opc' = "checked"
    /\ UNCHANGED <<depTree, rootId, installOrder, walk>>
    /\ UNCHANGED <<projectVars, resolverVars, registryVars, idVars, versionVars, packageVars>>

\* getInstallOrder(resolved) taken step by step: the call visit(resolved)
VisitCall ==
    /\ opc = "idle"
    /\ walk' = StartWalk(rootId)
    /\ opc' = "walking"
    /\ UNCHANGED <<depTree, rootId, installOrder, depCheck>>
    /\ UNCHANGED <<projectVars, resolverVars, registryVars, idVars, versionVars, packageVars>>

\* one step of visit; when the outermost visit returns, getInstallOrder
\* returns order
VisitStep ==
    /\ opc = "walking"
    /\ Len(walk.stack) < MaxStack \/ ~Calls(walk, depTree)
    /\ walk' = StepVisit(walk, depTree)
    /\ IF walk'.stack = <<>>
       THEN opc' = "walked" /\ installOrder' = walk'.order
       ELSE opc' = opc /\ installOrder' = installOrder
    /\ UNCHANGED <<depTree, rootId, depCheck>>
    /\ UNCHANGED <<projectVars, resolverVars, registryVars, idVars, versionVars, packageVars>>

NextVisit == VisitCall \/ VisitStep

\* the steps of one call follow each other without an await: a started walk
\* keeps running
SpecOrderFair == InitOrder /\ [][NextVisit]_vars /\ WF_vars(VisitStep)

NextOrder == GetInstallOrder \/ CheckDependencies

SpecOrder == InitOrder /\ [][NextOrder]_vars

(***************************************************************************)
(* Claims about getInstallOrder (checked under SpecOrder)                  *)
(***************************************************************************)
DepsOf(i) == {depTree[i].dependencies[k] : k \in 1..Len(depTree[i].dependencies)}

\* ids reachable from the set S along dependencies
RECURSIVE ReachFrom(_)
ReachFrom(S) ==
    LET T == S \cup UNION {DepsOf(i) : i \in S}
    IN IF T = S THEN S ELSE ReachFrom(T)

TreeNodes == ReachFrom({rootId})

\* no node of the tree depends, directly or not, on itself
Acyclic == \A i \in TreeNodes : i \notin ReachFrom(DepsOf(i))

Positions(i) == {k \in 1..Len(installOrder) : installOrder[k] = i}

\* C3: on a dependency tree the plan holds every not-installed node exactly
\* once, no installed node, and every node after its own not-installed
\* dependencies; the chain A -> B -> C with only C installed gives [B, A].
C3_DependencyFirstPlan ==
    (opc = "done" /\ Acyclic) =>
        /\ \A i \in TreeNodes :
              Cardinality(Positions(i)) = (IF depTree[i].installed THEN 0 ELSE 1)
        /\ \A k \in 1..Len(installOrder) : installOrder[k] \in TreeNodes
        /\ \A k \in 1..Len(installOrder) :
              \A d \in DepsOf(installOrder[k]) :
                  ~depTree[d].installed => \E j \in 1..(k-1) : installOrder[j] = d
        /\ (/\ rootId = "A"
            /\ depTree["A"].dependencies = <<"B">>
            /\ depTree["B"].dependencies = <<"C">>
            /\ depTree["C"].dependencies = <<>>
            /\ depTree["C"].installed /\ ~depTree["A"].installed /\ ~depTree["B"].installed)
              => installOrder = <<"B", "A">>

\* the chain A -> B -> C with only C installed has been planned as [B, A]
C3_Witness ==
    /\ opc = "done"
    /\ rootId = "A"
    /\ depTree["A"].dependencies = <<"B">>
    /\ depTree["B"].dependencies = <<"C">>
    /\ depTree["C"].dependencies = <<>>
    /\ depTree["C"].installed /\ ~depTree["A"].installed /\ ~depTree["B"].installed
    /\ installOrder = <<"B", "A">>

\* how often the id i occurs as a dependency below the node from
RECURSIVE Occurrences(_, _)
Occurrences(from, i) ==
    LET ds == depTree[from].dependencies
        RECURSIVE Sum(_)
        Sum(k) == IF k > Len(ds) THEN 0
                  ELSE (IF ds[k] = i THEN 1 ELSE 0) + Occurrences(ds[k], i) + Sum(k + 1)
    IN Sum(1)

CountMissing(i) == Cardinality({k \in 1..Len(depCheck.missing) : depCheck.missing[k] = i})

\* C19: on a dependency tree checkDependencies lists every not-installed
\* node below the root, at any depth, once per occurrence, lists nothing
\* else, and reports satisfied exactly when the list is empty.
C19_MissingPerOccurrence ==
    (opc = "checked" /\ Acyclic) =>
        /\ ~depCheck.threw
        /\ \A i \in PackageIds :
              CountMissing(i) =
                  (IF depTree[i].installed THEN 0 ELSE Occurrences(rootId, i))
        /\ \A k \in 1..Len(depCheck.missing) :
              depCheck.missing[k] \in ReachFrom(DepsOf(rootId))
        /\ depCheck.satisfied <=> (depCheck.missing = <<>>)

\* C is missing, a direct dependency of A and one of A's dependency B: it is
\* listed twice
C19_Witness ==
    /\ opc = "checked"
    /\ rootId = "A"
    /\ depTree["A"].dependencies = <<"B", "C">>
    /\ depTree["B"].dependencies = <<"C">>
    /\ depTree["C"].dependencies = <<>>
    /\ depTree["B"].installed /\ ~depTree["C"].installed
    /\ depCheck = [threw |-> FALSE, satisfied |-> FALSE, missing |-> <<"C", "C">>]

\* no element of the sequence occurs twice
Once(q) == \A j, k \in 1..Len(q) : q[j] = q[k] => j = k

Walking == opc \in {"walking", "walked"}

\* C28: on every finite dependency graph, cycles and shared dependencies
\* included, getInstallOrder returns: the body of visit runs at most once for
\* an id, the call stack stays within the number of ids, the returned order
\* holds each id at most once and only ids not installed, and a started call
\* always reaches its return.
C28_VisitTerminates ==
    /\ [](Walking =>
            /\ Once(walk.entered)
            /\ Once(walk.order)
            /\ \A k \in 1..Len(walk.order) : ~depTree[walk.order[k]].installed
            /\ Len(walk.stack) <= Cardinality(TreeNodes) + 1
            /\ Len(walk.stack) < MaxStack
            /\ opc = "walked" =>
                  /\ walk.stack = <<>>
                  /\ installOrder = walk.order
                  /\ installOrder = getInstallOrder(rootId, depTree))
    /\ (opc = "walking" ~> opc = "walked")

\* a walk returned on a graph with a cycle and a dependency named twice
C28_Witness ==
    /\ opc = "walked"
    /\ rootId = "A"
    /\ depTree["A"].dependencies = <<"B", "B">>
    /\ depTree["B"].dependencies = <<"A">>
    /\ ~depTree["A"].installed /\ ~depTree["B"].installed
    /\ walk.entered = <<"A", "B">>
    /\ installOrder = <<"B", "A">>

(***************************************************************************)
(* Version constraints: the calls                                          *)
(***************************************************************************)
VersionSegments == {<<"0">>, <<"9">>, <<"1", "0">>, <<"x">>}

\* the segments after the operator: numerals and one that is no numeral
ConstraintSegments == {<<"0">>, <<"9">>, <<"1", "0">>, <<"x">>}

\* versions as version.split('.') sees them: at least one segment
Versions == UNION { [1..n -> VersionSegments] : n \in 1..MaxSegments }

\* constraints: an operator, none, or a prefix the pattern does not know,
\* before zero to MaxSegments numerals
Constraints ==
    { [op |-> o, parts |-> ps] :
        o \in Ops \cup {"", "~"},
        ps \in UNION { [1..n -> ConstraintSegments] : n \in 0..MaxSegments } }

InitVersion ==
    /\ ProjectIdle
    /\ PackagesIdle
    /\ ResolverIdle
    /\ OrderIdle
    /\ RegistryIdle
    /\ IdsIdle
    /\ version \in Versions
    /\ constraint \in Constraints
    /\ satisfied = FALSE
    /\ vpc = "idle"

\* a call satisfiesVersion(version, constraint)
SatisfiesVersion ==
    /\ vpc = "idle"
    /\ satisfied' = satisfiesVersion(version, constraint)
    /\ vpc' = "done"
    /\ UNCHANGED <<projectVars, version, constraint, resolverVars, orderVars, registryVars, idVars,
                 packageVars>>

NextVersion == SatisfiesVersion

SpecVersion == InitVersion /\ [][NextVersion]_vars

\* the i-th component of a dotted numeral, a missing one being 0
Part(segs, i) == IF i <= Len(segs) THEN Decimal(segs[i]) ELSE 0

\* every segment of the version is a numeral
NumericVersion == \A i \in 1..Len(version) : Number(version[i]) # NaN

\* (major, minor, patch) of the version is below that of the constraint
VersionBelow ==
    LET v == version  c == constraint.parts IN
    \/ Part(v, 1) < Part(c, 1)
    \/ Part(v, 1) = Part(c, 1) /\ Part(v, 2) < Part(c, 2)
    \/ Part(v, 1) = Part(c, 1) /\ Part(v, 2) = Part(c, 2) /\ Part(v, 3) < Part(c, 3)

VersionEqual ==
    \A i \in 1..3 : Part(version, i) = Part(constraint.parts, i)

\* C20: for a numeric version and a constraint of an optional operator and
\* one to three numerals, satisfiesVersion is true exactly when the
\* comparison by major, minor, patch (missing = 0) satisfies the operator,
\* no operator meaning "=".
C20_ComponentWise ==
    (vpc = "done" /\ Matches(constraint) /\ NumericVersion) =>
        (satisfied <=>
            CASE constraint.op = ">=" -> ~VersionBelow
              [] constraint.op = "<=" -> VersionBelow \/ VersionEqual
              [] constraint.op = ">"  -> ~VersionBelow /\ ~VersionEqual
              [] constraint.op = "<"  -> VersionBelow
              [] OTHER                -> VersionEqual)

\* "9.10" satisfies ">=9.9": 10 is above 9 as a number
C20_Witness ==
    /\ vpc = "done"
    /\ version = << <<"9">>, <<"1", "0">> >>
    /\ constraint = [op |-> ">=", parts |-> << <<"9">>, <<"9">> >>]
    /\ satisfied

\* "9" satisfies the constraint "9.0": no operator, missing components are 0
C20_WitnessDefaults ==
    /\ vpc = "done"
    /\ version = << <<"9">> >>
    /\ constraint = [op |-> "", parts |-> << <<"9">>, <<"0">> >>]
    /\ satisfied

\* the constraint is absent, or is not an optional operator before one to
\* three dot-separated numerals
Malformed ==
    \/ constraint = NoConstraint
    \/ constraint.op \notin Ops \cup {""}
    \/ Len(constraint.parts) \notin 1..3
    \/ \E i \in 1..Len(constraint.parts) : Number(constraint.parts[i]) = NaN

\* C21: satisfiesVersion returns true for every version when the constraint
\* is absent or does not match the comparator grammar.
C21_MalformedNeverBlocks ==
    (vpc = "done" /\ Malformed) => satisfied

\* "0" passes the constraint "~9", whose prefix the pattern does not know
C21_Witness ==
    /\ vpc = "done"
    /\ version = << <<"0">> >>
    /\ constraint = [op |-> "~", parts |-> << <<"9">> >>]
    /\ satisfied

\* "0" passes ">=9.x", whose second segment is no numeral
C21_WitnessSegment ==
    /\ vpc = "done"
    /\ version = << <<"0">> >>
    /\ constraint = [op |-> ">=", parts |-> << <<"9">>, <<"x">> >>]
    /\ satisfied

\* "0" passes the absent constraint
C21_WitnessAbsent ==
    /\ vpc = "done"
    /\ version = << <<"0">> >>
    /\ constraint = NoConstraint
    /\ satisfied

(***************************************************************************)
(* Package identifiers: the round trip                                     *)
(***************************************************************************)
IdTokens == {"stack", "npm", "unknown", ":", "a"}

\* id strings: every token sequence of at most MaxIdLen tokens
IdTexts == UNION { [1..n -> IdTokens] : n \in 0..MaxIdLen }

InitIds ==
    /\ ProjectIdle
    /\ PackagesIdle
    /\ ResolverIdle
    /\ OrderIdle
    /\ RegistryIdle
    /\ VersionIdle
    /\ idText \in IdTexts
    /\ parsedId = InvalidId
    /\ recreatedId = <<>>
    /\ ipc = "idle"

\* createPackageId(...parsePackageId(idText)); a throw of parsePackageId
\* leaves nothing recreated
RoundTrip ==
    /\ ipc = "idle"
    /\ parsedId' = parsePackageId(idText)
    /\ recreatedId' = IF parsePackageId(idText).ok
                      THEN createPackageId(parsePackageId(idText).kind,
                                           parsePackageId(idText).name)
                      ELSE <<>>
    /\ ipc' = "done"
    /\ UNCHANGED <<projectVars, idText, resolverVars, orderVars, registryVars, versionVars,
                 packageVars>>

NextIds == RoundTrip

SpecIds == InitIds /\ [][NextIds]_vars

\* "kind:name": a known kind, a colon and a name of at least one token
SyntacticallyValid(id) ==
    Len(id) >= 3 /\ id[1] \in ValidKinds /\ id[2] = ":"

\* C13: for every syntactically valid id, parsePackageId accepts it and
\* createPackageId of the parsed kind and name gives the id back.
C13_IdRoundTrip ==
    (ipc = "done" /\ SyntacticallyValid(idText)) =>
        /\ parsedId.ok
        /\ recreatedId = idText

\* an npm id of a two-token name has made the round trip
C13_Witness ==
    /\ ipc = "done"
    /\ idText = <<"npm", ":", "a", "a">>
    /\ parsedId = [ok |-> TRUE, kind |-> "npm", name |-> <<"a", "a">>]
    /\ recreatedId = idText

(***************************************************************************)
(* Dependency resolver: the calls of resolvePackages                       *)
(***************************************************************************)
\* the characters of an npm spec
SpecTokens == {"@", "/", "_", "a"}

NpmSpecs == UNION { [1..n -> SpecTokens] : n \in 0..MaxSpecLen }

NpmIds == { NpmPrefix \o s : s \in NpmSpecs }

StackS == <<"stack", ":", "s">>

BareS == <<"s">>

StackT == <<"stack", ":", "t">>

StackNone == <<"stack", ":", "none">>

ScopedId == <<"npm", ":", "@", "a", "/", "a">>

UnderscoreId == <<"npm", ":", "a", "_", "_", "a">>

RuntimeX == <<"runtime", ":", "x">>

RuntimeY == <<"runtime", ":", "y">>

BinaryX == <<"binary", ":", "x">>

AgentX == <<"agent", ":", "x">>

ToolX == <<"tool", ":", "x">>

\* an entry of the registry index
IndexEntry(id, kind, name, path, runtime, requires) ==
    [id |-> id, kind |-> Word(kind), name |-> Str(name), version |-> Word("1"),
     path |-> path, runtime |-> runtime, requires |-> requires]

RequiresObj(runtimes, binaries, tools, agents) ==
    [runtimes |-> runtimes, binaries |-> binaries, tools |-> tools, agents |-> agents]

\* (requires.runtimes, runtime) of a root package
RuntimeChoices ==
    { <<Undefined, Undefined>>,
      <<Undefined, Word("x")>>,
      <<Arr(<<>>), Word("x")>>,
      <<Arr(<< <<"x">> >>), Undefined>>,
      <<Arr(<< RuntimeX >>), Word("y")>>,
      <<Arr(<< <<"x">>, <<"y">> >>), Undefined>> }

\* (requires.binaries, requires.tools) of a root package
BinaryChoices ==
    { <<Undefined, Undefined>>,
      <<Arr(<< <<"x">> >>), Undefined>>,
      <<Arr(<< BinaryX >>), Undefined>>,
      <<Arr(<< ToolX >>), Undefined>>,
      <<Undefined, Arr(<< ToolX >>)>>,
      <<Arr(<<>>), Arr(<< <<"x">> >>)>> }

AgentChoices == { Undefined, Arr(<< <<"x">> >>), Arr(<< AgentX >>) }

\* the id property of an index entry: absent, bare or fully qualified
IdForms == { Undefined, Str(BareS), Str(StackS) }

\* (path of the index entry, canonical manifests of the registry)
PathChoices ==
    { <<Undefined, NoMap>>,
      <<Word("p"), NoMap>>,
      <<Word("p"), [k \in {<<"p">>} |->
                       [bins |-> Arr(<< <<"s">> >>), installType |-> Word("npm")]]>>,
      <<Word("p"), [k \in {<<"p">>} |->
                       [version |-> Word("2"),
                        requires |-> RequiresObj(Undefined, Undefined, Undefined,
                                                 Arr(<< <<"x">> >>))]]>> }

RootEntries(path) ==
    { IndexEntry(idf, "stack", BareS, path, rc[2],
                 RequiresObj(rc[1], bc[1], bc[2], ac)) :
        idf \in IdForms, rc \in RuntimeChoices, bc \in BinaryChoices, ac \in AgentChoices }
    \cup { IndexEntry(idf, "stack", BareS, path, rt, Undefined) :
             idf \in IdForms, rt \in {Undefined, Word("x")} }

\* the index entry of a dependency; it has a dependency of its own
DepEntry(id) ==
    IndexEntry(Str(id), id[1], Drop(id, 2), Undefined, Undefined,
               RequiresObj(Arr(<< <<"y">> >>), Undefined, Undefined, Undefined))

OptionalDeps == {RuntimeX, BinaryX, AgentX}

\* the second root package of the registry
EntryT ==
    IndexEntry(Str(StackT), "stack", <<"t">>, Undefined, Word("x"),
               RequiresObj(Undefined, Undefined, Undefined, Arr(<< <<"x">>, AgentX >>)))

\* the registry: the root s under its qualified and its bare id, the root t,
\* runtime:y and the dependencies in `present`
Catalogue(rootS, present) ==
    [id \in {StackS, BareS, StackT, RuntimeY} \cup present |->
        IF id \in {StackS, BareS} THEN rootS
        ELSE IF id = StackT THEN EntryT
        ELSE DepEntry(id)]

\* the root s of the calls that resolve several ids
EntryS ==
    IndexEntry(Str(StackS), "stack", BareS, Word("p"), Undefined,
               RequiresObj(Arr(<< <<"x">>, <<"y">> >>), Arr(<< ToolX >>),
                           Undefined, Undefined))

FewIds == {StackS, StackT, StackNone, ScopedId, UnderscoreId}

InstalledChoices == { {}, {StackS, RuntimeX, AgentX, ScopedId} }

InitPackages ==
    /\ ProjectIdle
    /\ ResolverIdle
    /\ OrderIdle
    /\ RegistryIdle
    /\ IdsIdle
    /\ VersionIdle
    /\ \/ \* one npm id
          /\ \E id \in NpmIds : ids = <<id>> /\ installedIds \in { {}, {id} }
          /\ registryIndex = Catalogue(EntryS, OptionalDeps)
          /\ manifestStore = NoMap
       \/ \* one registry id, against every registry of the model
          /\ ids \in { <<StackS>>, <<BareS>> }
          /\ \E pc \in PathChoices :
                /\ manifestStore = pc[2]
                /\ \E root \in RootEntries(pc[1]), present \in SUBSET OptionalDeps :
                      registryIndex = Catalogue(root, present)
          /\ installedIds \in InstalledChoices
       \/ \* several ids
          /\ ids \in UNION { [1..n -> FewIds] : n \in 2..MaxIds }
          /\ \E present \in SUBSET {RuntimeX, AgentX} :
                registryIndex = Catalogue(EntryS, present \cup {BinaryX})
          /\ manifestStore \in { pc[2] : pc \in PathChoices }
          /\ installedIds \in InstalledChoices
    /\ resolutions = [i \in DOMAIN ids |-> Unstarted]
    /\ outcome = Pending

\* resolvePackages(ids): ids.map runs every resolvePackage to its first await
ResolvePackages ==
    /\ \A i \in DOMAIN ids : resolutions[i].pc = "idle"
    /\ resolutions' = [i \in DOMAIN ids |-> Started(ids[i], installedIds)]
    /\ outcome' = IF \A i \in DOMAIN ids : resolutions'[i].pc = "done"
                  THEN [status |-> "fulfilled",
                        value |-> [i \in DOMAIN ids |-> resolutions'[i].result]]
                  ELSE Pending
    /\ UNCHANGED <<ids, registryIndex, manifestStore, installedIds>>
    /\ UNCHANGED <<projectVars, resolverVars, orderVars, registryVars, idVars, versionVars>>

\* call i resumes after `await getPackage(id)`
GotPackage(i) ==
    /\ resolutions[i].pc = "getPackage"
    /\ LET pkg == getPackage(registryIndex, ids[i])
           r   == resolutions[i]
       IN resolutions' =
            [resolutions EXCEPT ![i] =
                IF pkg = Null
                THEN [Unstarted EXCEPT !.pc = "threw", !.consulted = r.consulted,
                                       !.result = NotFound(ids[i])]
                ELSE IF Truthy(Get(pkg, "path"))
                THEN [r EXCEPT !.pc = "getManifest", !.pkg = pkg, !.consulted = @ + 1]
                ELSE AwaitDependencies(r, pkg, ids[i], installedIds)]
    /\ outcome' = Settle(outcome, resolutions', i)
    /\ UNCHANGED <<ids, registryIndex, manifestStore, installedIds>>
    /\ UNCHANGED <<projectVars, resolverVars, orderVars, registryVars, idVars, versionVars>>

\* call i resumes after `await getManifest(pkg)`
GotManifest(i) ==
    /\ resolutions[i].pc = "getManifest"
    /\ LET r == resolutions[i] IN
       resolutions' =
            [resolutions EXCEPT ![i] =
                AwaitDependencies(r, Merge(r.pkg, getManifest(manifestStore, r.pkg)),
                                  ids[i], installedIds)]
    /\ outcome' = Settle(outcome, resolutions', i)
    /\ UNCHANGED <<ids, registryIndex, manifestStore, installedIds>>
    /\ UNCHANGED <<projectVars, resolverVars, orderVars, registryVars, idVars, versionVars>>

\* call i resumes after an `await getPackage(...)` of resolveDependencies
GotDependency(i) ==
    /\ resolutions[i].pc = "getDependency"
    /\ LET lookups == Lookups(resolutions[i].pkg)
           pushed  == Push(resolutions, i, lookups[resolutions[i].next],
                           registryIndex, installedIds)
           r       == pushed[i]
       IN resolutions' =
            [pushed EXCEPT ![i] =
                IF r.next = Len(lookups)
                THEN Finished(r, r.pkg, ids[i], installedIds)
                ELSE [r EXCEPT !.next = @ + 1, !.consulted = @ + 1]]
    /\ outcome' = Settle(outcome, resolutions', i)
    /\ UNCHANGED <<ids, registryIndex, manifestStore, installedIds>>
    /\ UNCHANGED <<projectVars, resolverVars, orderVars, registryVars, idVars, versionVars>>

NextPackages ==
    \/ ResolvePackages
    \/ \E i \in DOMAIN ids : GotPackage(i)
    \/ \E i \in DOMAIN ids : GotManifest(i)
    \/ \E i \in DOMAIN ids : GotDependency(i)

SpecPackages == InitPackages /\ [][NextPackages]_vars

\* "npm:<spec>"
IsNpmId(id) == Len(id) >= 2 /\ id[1] = "npm" /\ id[2] = ":"

\* the spec has no "@" after its first character
CarriesNoVersion(spec) == \A j \in 2..Len(spec) : spec[j] # "@"

\* the filesystem form of a name: a leading "@" stripped, "/" replaced by "__"
FilesystemForm(name) ==
    ReplaceSlashes(IF name # <<>> /\ name[1] = "@" THEN Tail(name) ELSE name)

C22_WitnessVersion ==
    /\ ids = << <<"npm", ":", "@", "a", "@", "a">> >>
    /\ resolutions[1].pc = "done"
    /\ resolutions[1].result.name = Str(<<"@", "a">>)
    /\ resolutions[1].result.version = Str(<<"a">>)

\* the entries of requires[k] in a resolved package
DeclaredIn(res, k) ==
    IF res.requires = Undefined \/ res.requires[k].tag # "array" THEN {}
    ELSE { res.requires[k].s[n] : n \in 1..Len(res.requires[k].s) }

\* the dependency entries of a kind in a resolved package
DeclaredOfKind(res, kind) ==
    CASE kind = "runtime" ->
            DeclaredIn(res, "runtimes")
                \cup (IF res.runtime.tag = "string" THEN {res.runtime.s} ELSE {})
      [] kind = "binary"  -> DeclaredIn(res, "binaries") \cup DeclaredIn(res, "tools")
      [] kind = "agent"   -> DeclaredIn(res, "agents")

\* id is the entry e qualified for the list of a kind
QualifiedAs(kind, e, id) ==
    \/ ~Includes(e, ":") /\ id = <<kind, ":">> \o e
    \/ StartsWith(e, <<kind, ":">>) /\ id = e
    \/ kind = "binary" /\ StartsWith(e, <<"tool", ":">>)
                       /\ id = <<"binary", ":">> \o Drop(e, 2)

KindRank(kind) == CASE kind = "runtime" -> 1 [] kind = "binary" -> 2 [] kind = "agent" -> 3

\* C23: every dependency node of a resolved registry package has an empty
\* dependencies list, an id that is an entry of the list of its kind with
\* the kind prefixed when bare (tool: replaced by binary:), and the nodes
\* come in the order runtimes, binaries, agents.
C23_OneLevelDeep ==
    \A i \in DOMAIN ids :
        (resolutions[i].pc = "done" /\ ~IsNpmId(ids[i])) =>
            LET res  == resolutions[i].result
                deps == res.dependencies
            IN /\ \A n \in 1..Len(deps) :
                     /\ deps[n].dependencies = <<>>
                     /\ deps[n].kind.s[1] \in {"runtime", "binary", "agent"}
                     /\ \E e \in DeclaredOfKind(res, deps[n].kind.s[1]) :
                           QualifiedAs(deps[n].kind.s[1], e, deps[n].id.s)
               /\ \A m, n \in 1..Len(deps) :
                     m < n => KindRank(deps[m].kind.s[1]) <= KindRank(deps[n].kind.s[1])

\* a runtime, a binary declared as tool:x and an agent are resolved in this
\* order, each without the dependency its own registry entry declares
C23_Witness ==
    /\ ids = <<StackS>>
    /\ resolutions[1].pc = "done"
    /\ Len(resolutions[1].result.dependencies) = 3
    /\ resolutions[1].result.dependencies[1].id = Str(RuntimeX)
    /\ resolutions[1].result.dependencies[2].id = Str(BinaryX)
    /\ resolutions[1].result.dependencies[3].id = Str(AgentX)
    /\ ToolX \in DeclaredIn(resolutions[1].result, "binaries")
    /\ Runtimes(getPackage(registryIndex, RuntimeX)) # <<>>

\* C25: the i-th element of what resolvePackages(ids) is fulfilled with is
\* what resolvePackage(ids[i]) returns on its own against the same registry
\* and disk, whatever the interleaving; a rejection is the error of an id
\* that throws on its own.
C25_ConcurrentAsAlone ==
    /\ outcome.status = "fulfilled" =>
          \A i \in DOMAIN ids :
              LET alone == resolvePackage(ids[i], registryIndex, manifestStore, installedIds)
              IN ~alone.threw /\ outcome.value[i] = alone.value
    /\ outcome.status = "rejected" =>
          \E i \in DOMAIN ids :
              LET alone == resolvePackage(ids[i], registryIndex, manifestStore, installedIds)
              IN alone.threw /\ outcome.value = <<alone.value>>

\* two registry packages with dependencies were resolved together
C25_Witness ==
    /\ ids = <<StackS, StackT>>
    /\ outcome.status = "fulfilled"
    /\ Len(outcome.value[1].dependencies) = 3
    /\ Len(outcome.value[2].dependencies) = 3

\* C30: two npm: identifiers with different package names never resolve to
\* the same installDir.
C30_InstallDirUnique ==
    \A i, j \in DOMAIN ids :
        ( /\ IsNpmId(ids[i]) /\ IsNpmId(ids[j])
          /\ resolutions[i].pc = "done" /\ resolutions[j].pc = "done"
          /\ resolutions[i].result.name # resolutions[j].result.name )
        => resolutions[i].result.installDir # resolutions[j].result.installDir

(***************************************************************************)
(* System binary registrar: the calls                                      *)
(* registerSystemBinary runs synchronously up to its only await, so no     *)
(* other call interleaves with its steps; unregisterSystemBinary suspends  *)
(* at `await import('./shims.js')`, where other calls may run.             *)
(***************************************************************************)
Dirs == {SearchPaths[i] : i \in 1..Len(SearchPaths)}

FilesIn(states) == [d \in Dirs |-> states[CHOOSE i \in 1..Len(SearchPaths) : SearchPaths[i] = d]]

\* what the search paths hold for one name
GitFiles ==
    { FilesIn(<<"absent", "absent", "absent">>),
      FilesIn(<<"nonexec", "ok", "absent">>),
      FilesIn(<<"broken", "ok", "absent">>),
      FilesIn(<<"ok", "absent", "absent">>) }

RgFiles == FilesIn(<<"absent", "ok", "absent">>)

\* names handed to registerSystemBinary
RegNames == {"git"}

\* the bins option; the default [name] is one of these lists
BinsOptions ==
    { b \in UNION { [1..n -> BinNames] : n \in 1..MaxSysBins } :
        \A i, j \in 1..Len(b) : i # j => b[i] # b[j] }

Init ==
    /\ ProjectIdle
    /\ PackagesIdle
    /\ ResolverIdle
    /\ OrderIdle
    /\ IdsIdle
    /\ VersionIdle
    /\ sysFiles \in { [n \in BinNames |-> IF n = "git" THEN g ELSE RgFiles] :
                      g \in GitFiles }
    /\ pkgDir = [p \in AllPkgs |-> NoDir]
    /\ shims = [b \in BinNames |-> NoShim]
    /\ shimRegistry = [b \in BinNames |-> NoEntry]
    /\ reg = IdleReg
    /\ unreg = IdleUnreg
    /\ last = NoCall

\* the call that completed last was registerSystemBinary(name, { bins }): it is
\* the last call, and it failed before it used bins or left a record with them
IsRetry(name, bins) ==
    /\ last.op = "register"
    /\ \/ last.result.outcome = "rejected"
       \/ last.result.error \in {"not found in system paths", "found but is not functional"}
       \/ /\ pkgDir[PkgId("binary", name)].hasManifest
          /\ pkgDir[PkgId("binary", name)].manifest.bins = bins

\* registerSystemBinary(name, { bins }) is called
RegCall ==
    /\ reg.pc = "idle"
    /\ \E name \in RegNames, bins \in BinsOptions :
          reg' = [pc |-> "probe", name |-> name, bins |-> bins, path |-> NoPath,
                  retry |-> IsRetry(name, bins)]
    /\ UNCHANGED <<sysFiles, pkgDir, shims, shimRegistry, unreg, last>>

\* (mutant) a name that is registered already is refused
RegProbe_RefusesRegistered ==
    /\ reg.pc = "probe"
    /\ LET systemPath == findSystemBinary(sysFiles, reg.name, SearchPaths) IN
       IF systemPath = NoPath \/ isSystemBinaryRegistered(pkgDir, reg.name)
       THEN /\ reg' = IdleReg
            /\ last' = Returned("register", FALSE, Failure("not found in system paths"))
       ELSE /\ reg' = [reg EXCEPT !.pc = "check", !.path = systemPath]
            /\ last' = last
    /\ UNCHANGED <<sysFiles, pkgDir, shims, shimRegistry, unreg>>

\* step 1: probe the search paths
RegProbe ==
    /\ reg.pc = "probe"
    /\ LET systemPath == findSystemBinary(sysFiles, reg.name, SearchPaths) IN
       IF systemPath = NoPath
       THEN /\ reg' = IdleReg
            /\ last' = Returned("register", FALSE, Failure("not found in system paths"))
       ELSE /\ reg' = [reg EXCEPT !.pc = "check", !.path = systemPath]
            /\ last' = last
    /\ UNCHANGED <<sysFiles, pkgDir, shims, shimRegistry, unreg>>

\* (mutant) the --version check is skipped
RegCheck_Skipped ==
    /\ reg.pc = "check"
    /\ reg' = [reg EXCEPT !.pc = "write"]
    /\ UNCHANGED <<sysFiles, pkgDir, shims, shimRegistry, unreg, last>>

\* step 2: run `<path> --version`
RegCheck ==
    /\ reg.pc = "check"
    /\ IF VersionWorks(sysFiles, reg.path)
       THEN /\ reg' = [reg EXCEPT !.pc = "write"]
            /\ last' = last
       ELSE /\ reg' = IdleReg
            /\ last' = Returned("register", FALSE, Failure("found but is not functional"))
    /\ UNCHANGED <<sysFiles, pkgDir, shims, shimRegistry, unreg>>

\* the record registerSystemBinary writes (installedAt left out)
SystemRecord(name, bins, systemPath) ==
    [id |-> PkgId("binary", name), installType |-> "system", bins |-> bins,
     path |-> systemPath]

\* step 3: mkdirSync and writeFileSync, outside any try block
RegWrite ==
    /\ reg.pc = "write"
    /\ LET id == PkgId("binary", reg.name) IN
       \E fs \in {"ok", "mkdir throws", "write throws"} :
          CASE fs = "ok" ->
                /\ pkgDir' = [pkgDir EXCEPT ![id] =
                       [exists |-> TRUE, hasManifest |-> TRUE,
                        manifest |-> SystemRecord(reg.name, reg.bins, reg.path)]]
                /\ reg' = [reg EXCEPT !.pc = "shims"]
                /\ last' = last
            [] fs = "mkdir throws" ->
                /\ pkgDir' = pkgDir
                /\ reg' = IdleReg
                /\ last' = Returned("register", FALSE, Rejected("mkdirSync"))
            [] fs = "write throws" ->
                /\ pkgDir' = [pkgDir EXCEPT ![id].exists = TRUE]
                /\ reg' = IdleReg
                /\ last' = Returned("register", FALSE, Rejected("writeFileSync"))
    /\ UNCHANGED <<sysFiles, shims, shimRegistry, unreg>>

\* (mutant) an error of createShimsForTool is swallowed
ShimsResult_Swallowed(threw) == Success

\* the try/catch around createShimsForTool and the final return
ShimsResult(threw) ==
    IF threw THEN Failure("Failed to create shims") ELSE Success

\* step 4: createShimsForTool
RegShims ==
    /\ reg.pc = "shims"
    /\ LET r == createShimsForTool(
                   [id |-> PkgId("binary", reg.name), installType |-> "system",
                    bins |-> reg.bins, target |-> reg.path],
                   FALSE, shims, shimRegistry) IN
       /\ shims' = r.shims
       /\ shimRegistry' = r.registry
       /\ reg' = IdleReg
       /\ last' = Returned("register", FALSE, ShimsResult(r.threw))
    /\ UNCHANGED <<sysFiles, pkgDir, unreg>>

\* unregisterSystemBinary(name) up to its await: the existence check and the
\* read of manifest.json
UnregCall ==
    /\ reg.pc = "idle"
    /\ unreg.pc = "idle"
    /\ \E name \in BinNames :
          LET d == pkgDir[PkgId("binary", name)] IN
          IF ~d.exists
          THEN /\ unreg' = IdleUnreg
               /\ last' = Returned("unregister", FALSE, Failure("is not registered"))
          ELSE /\ unreg' = [pc |-> "await", name |-> name,
                            bins |-> IF d.hasManifest THEN d.manifest.bins ELSE <<name>>,
                            wasRegistered |-> isSystemBinaryRegistered(pkgDir, name)]
               /\ last' = last
    /\ UNCHANGED <<sysFiles, pkgDir, shims, shimRegistry, reg>>

\* (mutant) only the shim called like the package is removed
UnregFinish_NameOnly ==
    /\ reg.pc = "idle"
    /\ unreg.pc = "await"
    /\ shims' = removedShims(shims, <<unreg.name>>)
    /\ shimRegistry' = removedEntries(shimRegistry, <<unreg.name>>)
    /\ \E rmOk \in BOOLEAN :
          IF rmOk /\ pkgDir[PkgId("binary", unreg.name)].exists
          THEN /\ pkgDir' = [pkgDir EXCEPT ![PkgId("binary", unreg.name)] = NoDir]
               /\ last' = [Returned("unregister", FALSE, Success)
                               EXCEPT !.wasRegistered = unreg.wasRegistered]
          ELSE /\ pkgDir' = pkgDir
               /\ last' = [Returned("unregister", FALSE, Failure("rmSync"))
                               EXCEPT !.wasRegistered = unreg.wasRegistered]
    /\ unreg' = IdleUnreg
    /\ UNCHANGED <<sysFiles, reg>>

\* unregisterSystemBinary after its await: removeShims(bins), then rmSync
UnregFinish ==
    /\ reg.pc = "idle"
    /\ unreg.pc = "await"
    /\ shims' = removedShims(shims, unreg.bins)
    /\ shimRegistry' = removedEntries(shimRegistry, unreg.bins)
    /\ \E rmOk \in BOOLEAN :
          IF rmOk /\ pkgDir[PkgId("binary", unreg.name)].exists
          THEN /\ pkgDir' = [pkgDir EXCEPT ![PkgId("binary", unreg.name)] = NoDir]
               /\ last' = [Returned("unregister", FALSE, Success)
                               EXCEPT !.wasRegistered = unreg.wasRegistered]
          ELSE /\ pkgDir' = pkgDir
               /\ last' = [Returned("unregister", FALSE, Failure("rmSync"))
                               EXCEPT !.wasRegistered = unreg.wasRegistered]
    /\ unreg' = IdleUnreg
    /\ UNCHANGED <<sysFiles, reg>>

InstallTypeOf(id) == IF id[1] = "npm" THEN "npm" ELSE "download"

InstallBins(id) == IF id[1] = "npm" THEN BinsOptions ELSE {<<id[3]>>}

\* the installer: the record is written, then the shims are created
InstallPackage ==
    /\ reg.pc = "idle"
    /\ \E id \in OtherPkgs, force \in BOOLEAN :
       \E bins \in InstallBins(id) :
          LET rec == [id |-> id, installType |-> InstallTypeOf(id), bins |-> bins,
                      path |-> NoPath]
              r   == createShimsForTool(
                        [id |-> id, installType |-> InstallTypeOf(id), bins |-> bins,
                         target |-> Join(id[1], id[3])],
                        force, shims, shimRegistry)
          IN /\ pkgDir' = [pkgDir EXCEPT ![id] =
                              [exists |-> TRUE, hasManifest |-> TRUE, manifest |-> rec]]
             /\ shims' = r.shims
             /\ shimRegistry' = r.registry
             /\ last' = Returned("install", force,
                                  IF r.threw THEN Failure("shim conflict") ELSE Success)
    /\ UNCHANGED <<sysFiles, reg, unreg>>

\* names whose registry entry names the owner
OwnedBy(registry, id) == {b \in DOMAIN registry : registry[b].owned /\ registry[b].owner = id}

\* the uninstaller: the package's own shims go, then its directory
UninstallPackage ==
    /\ reg.pc = "idle"
    /\ \E id \in OtherPkgs :
          IF ~pkgDir[id].exists
          THEN /\ last' = Returned("uninstall", FALSE, Failure("not installed"))
               /\ UNCHANGED <<pkgDir, shims, shimRegistry>>
          ELSE /\ shims' = [b \in DOMAIN shims |->
                              IF b \in OwnedBy(shimRegistry, id) THEN NoShim ELSE shims[b]]
               /\ shimRegistry' = [b \in DOMAIN shimRegistry |->
                              IF b \in OwnedBy(shimRegistry, id) THEN NoEntry
                              ELSE shimRegistry[b]]
               /\ pkgDir' = [pkgDir EXCEPT ![id] = NoDir]
               /\ last' = Returned("uninstall", FALSE, Success)
    /\ UNCHANGED <<sysFiles, reg, unreg>>

Next ==
    \/ (RegCall /\ UNCHANGED <<projectVars, resolverVars, orderVars, idVars, versionVars, packageVars>>)
    \/ (RegProbe /\ UNCHANGED <<projectVars, resolverVars, orderVars, idVars, versionVars, packageVars>>)
    \/ (RegCheck /\ UNCHANGED <<projectVars, resolverVars, orderVars, idVars, versionVars, packageVars>>)
    \/ (RegWrite /\ UNCHANGED <<projectVars, resolverVars, orderVars, idVars, versionVars, packageVars>>)
    \/ (RegShims /\ UNCHANGED <<projectVars, resolverVars, orderVars, idVars, versionVars, packageVars>>)
    \/ (UnregCall /\ UNCHANGED <<projectVars, resolverVars, orderVars, idVars, versionVars, packageVars>>)
    \/ (UnregFinish /\ UNCHANGED <<projectVars, resolverVars, orderVars, idVars, versionVars, packageVars>>)
    \/ (InstallPackage /\ UNCHANGED <<projectVars, resolverVars, orderVars, idVars, versionVars, packageVars>>)
    \/ (UninstallPackage /\ UNCHANGED <<projectVars, resolverVars, orderVars, idVars, versionVars, packageVars>>)

Spec == Init /\ [][Next]_vars

(***************************************************************************)
(* Claims about the registrar and the shim registry (checked under Spec)   *)
(***************************************************************************)
RegId == PkgId("binary", reg.name)

\* C4: a step that removes the directory of one package leaves every shim
\* owned by a different package in place, pointing at its target.
C4_RemovalKeepsOtherShims ==
    [][ \A p \in AllPkgs :
          (pkgDir[p].exists /\ ~pkgDir'[p].exists) =>
              \A b \in BinNames :
                  (shimRegistry[b].owned /\ shimRegistry[b].owner # p /\ shims[b].exists)
                      => shims'[b] = shims[b] ]_vars

\* a requested bin is owned by a package other than the one being registered
RegConflict ==
    \E i \in 1..Len(reg.bins) :
        shimRegistry[reg.bins[i]].owned /\ shimRegistry[reg.bins[i]].owner # RegId

C8_NeverRejects ==
    last.op = "register" => last.result.outcome = "resolved"

\* C9: during a registration the record is written only in the write step,
\* after a successful probe and --version check, and shims change only while
\* the record of this registration is on disk.
C9_RecordBeforeShims ==
    [][ reg.pc # "idle" =>
          /\ (pkgDir'[RegId] # pkgDir[RegId] /\ pkgDir'[RegId].hasManifest) =>
                /\ reg.pc = "write"
                /\ reg.path # NoPath
                /\ reg.path = findSystemBinary(sysFiles, reg.name, SearchPaths)
                /\ VersionWorks(sysFiles, reg.path)
          /\ (shims' # shims \/ shimRegistry' # shimRegistry) =>
                /\ pkgDir[RegId].hasManifest
                /\ pkgDir[RegId].manifest = SystemRecord(reg.name, reg.bins, reg.path)
                /\ pkgDir'[RegId] = pkgDir[RegId] ]_vars

\* a registration of git completed: record and shim are both on disk
C9_Witness ==
    /\ last = Returned("register", FALSE, Success)
    /\ pkgDir[PkgId("binary", "git")].hasManifest
    /\ pkgDir[PkgId("binary", "git")].manifest.installType = "system"
    /\ shims["git"].exists
    /\ shims["git"].target = pkgDir[PkgId("binary", "git")].manifest.path

\* C10: unregisterSystemBinary(name) without a registration of name returns
\* { success: false, error } and removes no shim and no directory.
C10_AbsentIsFailure ==
    [][ (/\ unreg.pc = "await"
         /\ ~unreg.wasRegistered
         /\ ~isSystemBinaryRegistered(pkgDir, unreg.name)
         /\ unreg'.pc = "idle") =>
            /\ last'.op = "unregister"
            /\ ~last'.result.success
            /\ shims' = shims
            /\ pkgDir' = pkgDir ]_vars

\* C27: a call unregisterSystemBinary(name) that found isSystemBinaryRegistered(name)
\* false when it was made, binary:<name> installed with another installType
\* included, removes no shim, no shim registry entry and no package directory
\* and returns success false.
C27_OnlySystemRegistered ==
    [][ (/\ unreg.pc = "await"
         /\ ~unreg.wasRegistered
         /\ unreg'.pc = "idle") =>
            /\ ~last'.result.success
            /\ shims' = shims
            /\ shimRegistry' = shimRegistry
            /\ pkgDir' = pkgDir ]_vars

\* C12: a registerSystemBinary call that repeats the call completed last, with
\* the system binaries unchanged and the file system answering as it did,
\* leaves the package directories, the shims and the shim registry as they
\* are and returns what the first call returned.
C12_RetryIdempotent ==
    [][ (/\ reg.pc # "idle"
         /\ reg.retry
         /\ reg.pc = "write" =>
               IF last.result.outcome = "rejected"
               THEN reg'.pc = "idle" /\ last'.result = last.result
               ELSE reg'.pc = "shims"
         /\ reg.pc = "shims" => last.result.outcome = "resolved") =>
            /\ pkgDir' = pkgDir
            /\ shims' = shims
            /\ shimRegistry' = shimRegistry
            /\ reg'.pc = "idle" => last'.result = last.result ]_vars

\* the repeated call of a successful registration of git with the bins git and
\* rg has rewritten the record and is about to create the shims again
C12_Witness ==
    /\ reg.pc = "shims" /\ reg.retry
    /\ reg.bins = <<"git", "rg">>
    /\ last = Returned("register", FALSE, Success)
    /\ pkgDir[RegId].manifest = SystemRecord(reg.name, reg.bins, reg.path)
    /\ shims["git"].exists /\ shims["rg"].exists

\* the repeated call of a registration that failed on a shim conflict is about
\* to meet the conflict again
C12_WitnessFailed ==
    /\ reg.pc = "shims" /\ reg.retry
    /\ last = Returned("register", FALSE, Failure("Failed to create shims"))
    /\ RegConflict

UnregId == PkgId("binary", unreg.name)

\* the record unregisterSystemBinary read is a system registration and is
\* still the one on disk when the call resumes
UnregOfRegistration ==
    /\ unreg.pc = "await"
    /\ unreg.wasRegistered
    /\ isSystemBinaryRegistered(pkgDir, unreg.name)
    /\ pkgDir[UnregId].manifest.bins = unreg.bins

\* C11: a successful unregisterSystemBinary(name) of a registered name leaves
\* no shim and no registry entry for any name in the record's bins, no package
\* directory, isSystemBinaryRegistered(name) false and getSystemBinaryInfo(name)
\* null; when the directory cannot be deleted the shims are gone already.
C11_UnregisterReverses ==
    [][ (UnregOfRegistration /\ unreg'.pc = "idle") =>
          LET bins == pkgDir[UnregId].manifest.bins IN
          /\ \A i \in 1..Len(bins) :
                shims'[bins[i]] = NoShim /\ shimRegistry'[bins[i]] = NoEntry
          /\ last'.op = "unregister"
          /\ last'.result.success =>
                /\ pkgDir'[UnregId] = NoDir
                /\ ~isSystemBinaryRegistered(pkgDir', unreg.name)
                /\ getSystemBinaryInfo(pkgDir', unreg.name) = NoRecord ]_vars

\* git was registered with the bins git and rg, then unregistered: both shims
\* and the directory are gone
C11_Witness ==
    /\ last.op = "unregister" /\ last.result.success /\ last.wasRegistered
    /\ pkgDir[PkgId("binary", "git")] = NoDir
    /\ getSystemBinaryInfo(pkgDir, "git") = NoRecord
    /\ shims["git"] = NoShim /\ shims["rg"] = NoShim
    /\ findSystemBinary(sysFiles, "git", SearchPaths) # NoPath

(***************************************************************************)
(* rudi apply: cmdApply and undoPlan                                       *)
(***************************************************************************)
MaxActions == 2    \* actions of one plan, over its three lists

\* String.prototype.toLowerCase, letter by letter
LowerCase(ch) == IF ch = "A" THEN "a" ELSE IF ch = "B" THEN "b" ELSE ch

toLowerCase(str) == [i \in 1..Len(str) |-> LowerCase(str[i])]

RECURSIVE SkipSpaces(_)
SkipSpaces(str) ==
    IF str # <<>> /\ str[1] = " " THEN SkipSpaces(Tail(str)) ELSE str

\* str.replace(/\s+/g, '-'): every run of white space becomes one dash
RECURSIVE ReplaceSpaceRuns(_)
ReplaceSpaceRuns(str) ==
    IF str = <<>> THEN <<>>
    ELSE IF str[1] = " " THEN <<"-">> \o ReplaceSpaceRuns(SkipSpaces(str))
    ELSE <<str[1]>> \o ReplaceSpaceRuns(Tail(str))

\* `proj-${p.name.toLowerCase().replace(/\s+/g, '-')}`
ProjectIdOf(name) == <<"proj-">> \o ReplaceSpaceRuns(toLowerCase(name))

DeleteProject(projectId) ==
    [type |-> "deleteProject", projectId |-> projectId, sessionId |-> "",
     fromProject |-> Null, fromTitle |-> Null, fromTitleOverride |-> Null]

MoveSession(sessionId, fromProject) ==
    [type |-> "moveSession", projectId |-> <<>>, sessionId |-> sessionId,
     fromProject |-> fromProject, fromTitle |-> Null, fromTitleOverride |-> Null]

UpdateTitle(sessionId, fromTitle, fromTitleOverride) ==
    [type |-> "updateTitle", projectId |-> <<>>, sessionId |-> sessionId,
     fromProject |-> Null, fromTitle |-> fromTitle,
     fromTitleOverride |-> fromTitleOverride]

\* INSERT OR IGNORE INTO projects (id, ..., name, ...): a row whose id is
\* taken is left alone and the statement does not throw
InsertOrIgnore(rows, projectId, name) ==
    IF rows[projectId] = NoRow THEN [rows EXCEPT ![projectId] = name] ELSE rows

\* step 1, from the i-th entry of createProjects on; db holds the two
\* tables and undoActions
RECURSIVE CreateProjects(_, _, _)
CreateProjects(db, list, i) ==
    IF i > Len(list) THEN db
    ELSE LET projectId == ProjectIdOf(list[i].name)
         IN CreateProjects(
               [db EXCEPT !.projects = InsertOrIgnore(@, projectId, list[i].name),
                          !.undoActions = Append(@, DeleteProject(projectId))],
               list, i + 1)

\* projectIds.get(name.toLowerCase()) of the Map filled from SELECT id, name
\* FROM projects in the order rowOrder: a later row replaces an earlier one
\* of the same lower-case name; Undefined when no row has it
ProjectIdFor(rows, rowOrder, name) ==
    LET hits == {k \in 1..Len(rowOrder) :
                    /\ rows[rowOrder[k]] # NoRow
                    /\ toLowerCase(rows[rowOrder[k]]) = toLowerCase(name)}
    IN IF hits = {} THEN Undefined
       ELSE Str(rowOrder[CHOOSE k \in hits : \A j \in hits : j <= k])

\* step 2, from the i-th entry of moveSessions on
RECURSIVE MoveSessions(_, _, _, _)
MoveSessions(db, rowOrder, list, i) ==
    IF i > Len(list) THEN db
    ELSE LET m         == list[i]
             projectId == ProjectIdFor(db.projects, rowOrder, m.suggestedProject)
             current   == db.sessions[m.sessionId]
         IN IF projectId = Undefined
            THEN MoveSessions(db, rowOrder, list, i + 1)
            ELSE MoveSessions(
                    [db EXCEPT !.sessions[m.sessionId].project_id = projectId,
                               !.undoActions =
                                   Append(@, MoveSession(m.sessionId, current.project_id))],
                    rowOrder, list, i + 1)

\* step 3, from the i-th entry of updateTitles on
RECURSIVE UpdateTitles(_, _, _)
UpdateTitles(db, list, i) ==
    IF i > Len(list) THEN db
    ELSE LET t       == list[i]
             current == db.sessions[t.sessionId]
         IN UpdateTitles(
               [db EXCEPT !.sessions[t.sessionId].title = Str(t.suggestedTitle),
                          !.sessions[t.sessionId].title_override = Str(t.suggestedTitle),
                          !.undoActions =
                              Append(@, UpdateTitle(t.sessionId, current.title,
                                                    current.title_override))],
               list, i + 1)

\* the --only filter over the three lists of plan.actions
Filtered(actions, only) ==
    IF only = "move" THEN [actions EXCEPT !.createProjects = <<>>, !.updateTitles = <<>>]
    ELSE IF only = "rename" THEN [actions EXCEPT !.createProjects = <<>>, !.moveSessions = <<>>]
    ELSE IF only = "project" THEN [actions EXCEPT !.moveSessions = <<>>, !.updateTitles = <<>>]
    ELSE actions

\* one action of the undo file applied to the two tables
Undo(db, action) ==
    IF action.type = "deleteProject"
    THEN [db EXCEPT !.projects[action.projectId] = NoRow]
    ELSE IF action.type = "moveSession"
    THEN [db EXCEPT !.sessions[action.sessionId].project_id = action.fromProject]
    ELSE [db EXCEPT !.sessions[action.sessionId].title = action.fromTitle,
                    !.sessions[action.sessionId].title_override = action.fromTitleOverride]

\* for (const action of [...undoPlan.actions].reverse()), from the i-th
\* action downwards
RECURSIVE UndoAll(_, _, _)
UndoAll(db, actions, i) ==
    IF i = 0 THEN db ELSE UndoAll(Undo(db, actions[i]), actions, i - 1)

(***************************************************************************)
(* rudi apply: the calls                                                   *)
(***************************************************************************)
ProjectNames == {<<"A">>, <<"a">>, <<"a", " ", " ", "B">>, <<"a", "-", "b">>}

ProjectIds == {ProjectIdOf(n) : n \in ProjectNames}

SessionIds == {"s1"}

TitleChoices == {Null, Str(<<"T1">>), Str(<<"T2">>)}

\* rows of table sessions: the project is one with a row, or NULL
SessionRows(rows) ==
    [project_id : {Null} \cup {Str(p) : p \in {q \in ProjectIds : rows[q] # NoRow}},
     title : TitleChoices \ {Str(<<"T2">>)},
     title_override : TitleChoices \ {Str(<<"T2">>)}]

CreateEntries == [name : ProjectNames]

MoveEntries == [sessionId : SessionIds, suggestedProject : ProjectNames]

TitleEntries == [sessionId : SessionIds, suggestedTitle : {<<"T1">>, <<"T2">>}]

UpTo(S, n) == UNION { [1..k -> S] : k \in 0..n }

Plans ==
    { p \in [createProjects : UpTo(CreateEntries, MaxActions),
             moveSessions : UpTo(MoveEntries, MaxActions),
             updateTitles : UpTo(TitleEntries, MaxActions)] :
        Len(p.createProjects) + Len(p.moveSessions) + Len(p.updateTitles) <= MaxActions }

RowOrders == { o \in [1..Cardinality(ProjectIds) -> ProjectIds] :
                 \A j, k \in DOMAIN o : o[j] = o[k] => j = k }

OnlyChoices == {"", "move", "rename", "project", "other"}

InitProject ==
    /\ PackagesIdle
    /\ ResolverIdle
    /\ OrderIdle
    /\ RegistryIdle
    /\ IdsIdle
    /\ VersionIdle
    /\ projects \in [ProjectIds -> ProjectNames \cup {NoRow}]
    /\ sessions \in [SessionIds -> SessionRows(projects)]
    /\ plan \in Plans
    /\ undoFile = NoFile
    /\ before = [projects |-> projects, sessions |-> sessions]
    /\ ppc = "idle"

\* rudi apply plan.json [--force] [--only <type>]
CmdApply ==
    /\ ppc = "idle"
    /\ \E only \in OnlyChoices, confirmed \in BOOLEAN, rowOrder \in RowOrders :
          LET actions == Filtered(plan, only)
              total   == Len(actions.createProjects) + Len(actions.moveSessions)
                           + Len(actions.updateTitles)
              db0     == [projects |-> projects, sessions |-> sessions,
                          undoActions |-> <<>>]
              db1     == CreateProjects(db0, actions.createProjects, 1)
              db2     == MoveSessions(db1, rowOrder, actions.moveSessions, 1)
              db3     == UpdateTitles(db2, actions.updateTitles, 1)
          IN IF only = "other" \/ total = 0 \/ ~confirmed
             THEN /\ ppc' = "cancelled"
                  /\ UNCHANGED <<projects, sessions, undoFile>>
             ELSE /\ projects' = db3.projects
                  /\ sessions' = db3.sessions
                  /\ undoFile' = [exists |-> TRUE, actions |-> db3.undoActions]
                  /\ ppc' = "applied"
    /\ before' = [projects |-> projects, sessions |-> sessions]
    /\ UNCHANGED plan
    /\ UNCHANGED <<resolverVars, orderVars, registryVars, idVars, versionVars, packageVars>>

\* rudi apply --undo <planId>
UndoPlan ==
    /\ ppc \in {"applied", "cancelled"}
    /\ IF ~undoFile.exists
       THEN /\ ppc' = "notfound"
            /\ UNCHANGED <<projects, sessions, undoFile>>
       ELSE LET db == UndoAll([projects |-> projects, sessions |-> sessions],
                              undoFile.actions, Len(undoFile.actions))
            IN /\ projects' = db.projects
               /\ sessions' = db.sessions
               /\ undoFile' = NoFile
               /\ ppc' = "undone"
    /\ UNCHANGED <<plan, before>>
    /\ UNCHANGED <<resolverVars, orderVars, registryVars, idVars, versionVars, packageVars>>

NextProject == CmdApply \/ UndoPlan

SpecProject == InitProject /\ [][NextProject]_vars

(***************************************************************************)
(* Claims about rudi apply (checked under SpecProject)                     *)
(***************************************************************************)
\* C26: after rudi apply and rudi apply --undo of that plan the tables
\* projects and sessions are as they were before the apply: every session
\* has its previous project_id, title and title_override, and the projects
\* are the same, a project that existed before included.
C26_UndoRestores ==
    ppc = "undone" => (projects = before.projects /\ sessions = before.sessions)

====
